---- MODULE Spec2Model ----
(***************************************************************************)
(* mpm (storrealbac/mpm): the batch install of internal/cmd/install.go.    *)
(* installFromPackage loads package.yml and package-lock.yml, resolves     *)
(* every declared plugin to a download task, runs the tasks as goroutines  *)
(* bounded by a counting semaphore, records results under a mutex, joins,  *)
(* and saves the lock file once.  downloadFileModrinth/downloadFileHangar  *)
(* stream a remote file into a temp file while hashing it, verify the      *)
(* digest and publish by rename with a copy fallback.                      *)
(***************************************************************************)
EXTENDS Integers, Sequences, FiniteSets, TLC

\* ------------------------------------------------------------------------
\* Bounds of the model
\* ------------------------------------------------------------------------

\* Number of plugins declared in package.yml (Spec).
MaxPlugins == 2

\* Number of prepared download tasks handed to the worker pool (SpecPool).
MaxPoolTasks == 6

\* ------------------------------------------------------------------------
\* Program constants
\* ------------------------------------------------------------------------

\* semaphore := make(chan struct{}, 5)
SemaphoreCap == 5

\* ------------------------------------------------------------------------
\* Strings that the code folds, splits or encodes are sequences of
\* one-character strings.
\* ------------------------------------------------------------------------


UpperOf == [a |-> "A", b |-> "B", c |-> "C", d |-> "D", e |-> "E", f |-> "F"]
LowerOf == [A |-> "a", B |-> "b", C |-> "c", D |-> "d", E |-> "e", F |-> "f"]

ToLowerChar(ch) == IF ch \in DOMAIN LowerOf THEN LowerOf[ch] ELSE ch
ToUpperChar(ch) == IF ch \in DOMAIN UpperOf THEN UpperOf[ch] ELSE ch

ToUpper(s) == [k \in 1..Len(s) |-> ToUpperChar(s[k])]

\* strings.EqualFold on hex strings: equality under simple case folding.
EqualFold(s, t) ==
    /\ Len(s) = Len(t)
    /\ \A k \in 1..Len(s) : ToLowerChar(s[k]) = ToLowerChar(t[k])

\* ------------------------------------------------------------------------
\* Streaming digest: hasher := sha512.New() / sha256.New(); every chunk of
\* io.Copy is written to it; hex.EncodeToString(hasher.Sum(nil)).
\* The digest is a one-byte stand-in computed by a running fold of the
\* bytes, with a different initial value per algorithm.
\* ------------------------------------------------------------------------

HexDigits == <<"0","1","2","3","4","5","6","7","8","9","a","b","c","d","e","f">>

HashNew(alg) == IF alg = "sha512" THEN 10 ELSE 77

HashWrite(h, byte) == (h * 31 + byte + 1) % 256

\* hex.EncodeToString: lower-case hex, two digits per byte.
HexEncode(h) == << HexDigits[(h \div 16) + 1], HexDigits[(h % 16) + 1] >>

RECURSIVE HashAll(_, _)
HashAll(h, bytes) ==
    IF bytes = << >> THEN h
    ELSE HashAll(HashWrite(h, Head(bytes)), Tail(bytes))

\* The hex digest of a whole byte sequence under an algorithm.
Digest(alg, bytes) == HexEncode(HashAll(HashNew(alg), bytes))

\* ------------------------------------------------------------------------
\* Files: the remote artifact, and what may already be in the plugins dir.
\* ------------------------------------------------------------------------

\* The bytes every download URL serves (one byte per chunk of io.Copy).
Payload == <<1, 2>>

\* Bytes of a jar that is in the plugins directory before the run.
OldContent == <<3>>

WrongHex == <<"0", "0">>

\* strings.ToUpper / strings.ToLower on the platform names the code folds.
StrUpper(s) ==
    CASE s = "paper" -> "PAPER"
      [] s = "purpur" -> "PURPUR"
      [] s = "velocity" -> "VELOCITY"
      [] s = "waterfall" -> "WATERFALL"
      [] OTHER -> s

StrLower(s) ==
    CASE s = "PAPER" -> "paper"
      [] s = "PURPUR" -> "purpur"
      [] s = "VELOCITY" -> "velocity"
      [] s = "WATERFALL" -> "waterfall"
      [] s = "Spigot" -> "spigot"
      [] OTHER -> s

\* strings.EqualFold on platform names.
StrEqualFold(s, t) == StrLower(s) = StrLower(t)

\* ------------------------------------------------------------------------
\* package.yml (models.Package / models.Plugin).  Identifiers are character
\* sequences; the empty sequence is the empty string.
\* ------------------------------------------------------------------------

Plugin(name, version, modrinthID, hangarID) ==
    [Name |-> name, Version |-> version, ModrinthID |-> modrinthID, HangarID |-> hangarID]

PModLatest == Plugin("ModA", "latest", <<"m", "a">>, << >>)
PModPinned == Plugin("ModB", "1.0", <<"m", "b">>, << >>)
PHangar    == Plugin("HanA", "", << >>, <<"o", "/", "s">>)
PNoSource  == Plugin("None", "latest", << >>, << >>)
PHangarPinned == Plugin("HanB", "2.0", << >>, <<"o", "/", "s">>)

PluginPool == {PModLatest, PModPinned, PHangar, PHangarPinned, PNoSource}

RECURSIVE SeqsUpTo(_, _)
SeqsUpTo(S, n) ==
    IF n = 0 THEN {<< >>}
    ELSE LET shorter == SeqsUpTo(S, n - 1)
         IN  shorter \cup {Append(q, x) : q \in {r \in shorter : Len(r) = n - 1}, x \in S}

\* pkg.Server.Type values of the packages considered.
ServerTypes == {"paper", "purpur"}

\* The plugin lists package.yml may declare for a server type (a purpur
\* server is considered with at least one Hangar plugin).
PluginLists(type) ==
    {pl \in SeqsUpTo(PluginPool, MaxPlugins) :
        type = "purpur" => \E k \in 1..Len(pl) : pl[k] = PHangar}

\* pkg.Server.MinecraftVersion
GameVersion == "1.20"

\* ------------------------------------------------------------------------
\* Modrinth catalog (ModrinthVersion / ModrinthFile)
\* ------------------------------------------------------------------------

MFile(url, filename, primary, hashes) ==
    [URL |-> url, Filename |-> filename, Primary |-> primary, Hashes |-> hashes]

\* f.Hashes["sha512"]: the zero value "" for a missing key.
HashesGet(hashes, alg) == IF alg \in DOMAIN hashes THEN hashes[alg] ELSE << >>

MFMain   == MFile(<<"cdn", "a.jar">>, "a.jar", TRUE,  [sha512 |-> Digest("sha512", Payload)])
MFExtra  == MFile(<<"cdn", "x.jar">>, "b.jar", FALSE, [sha1 |-> WrongHex])
MFUpper  == MFile(<<"cdn", "u.jar">>, "a.jar", FALSE, [sha512 |-> ToUpper(Digest("sha512", Payload))])
MFBad    == MFile(<<"cdn", "n.jar">>, "b.jar", FALSE, [sha1 |-> Digest("sha512", Payload),
                                                       sha512 |-> WrongHex])

MVersion(number, gameVersions, loaders, files) ==
    [VersionNumber |-> number, GameVersions |-> gameVersions, Loaders |-> loaders, Files |-> files]

MV3 == MVersion("3.0", {GameVersion}, <<"paper">>, <<MFExtra, MFMain>>)
MV2 == MVersion("2.0", {GameVersion}, <<"Spigot">>, <<MFBad>>)
MV1 == MVersion("1.0", {GameVersion}, <<"spigot">>, <<MFUpper, MFExtra>>)
MV0 == MVersion("0.9", {"1.19"}, <<"bukkit">>, << >>)

\* A catalog call answers with an error (transport failure or a status that
\* is not 200) or with a list.
Failed == [err |-> TRUE, versions |-> << >>]
Listing(vs) == [err |-> FALSE, versions |-> vs]

\* What GetProjectVersions(id, serverVersion) may answer.
ModrinthListings ==
    {Failed, Listing(<< >>), Listing(<<MV3, MV1>>), Listing(<<MV1, MV3>>),
     Listing(<<MV2>>), Listing(<<MV0>>)}

\* What GetProjectVersions(id, "") may answer inside the alternative search.
ModrinthAllListings == {Failed, Listing(<< >>), Listing(<<MV0, MV2, MV1>>)}

\* Console output: ui.PrintError / PrintWarning / PrintInfo / PrintSuccess.
Msg(kind, what, name, detail) ==
    [kind |-> kind, what |-> what, name |-> name, detail |-> detail]

\* platformsToTry of findAlternativeModrinthVersions.
ModrinthPlatformsToTry(currentPlatform) ==
    LET cur == StrLower(currentPlatform)
    IN  CASE cur \in {"paper", "purpur", "folia"} ->
                <<"paper", "spigot", "bukkit", "purpur", "folia">>
          [] cur = "spigot" -> <<"spigot", "bukkit", "paper">>
          [] cur = "bukkit" -> <<"bukkit", "spigot", "paper">>
          [] cur = "velocity" -> <<"velocity">>
          [] cur = "waterfall" -> <<"bungeecord">>
          [] cur = "sponge" -> <<"sponge">>
          [] OTHER -> <<"paper", "spigot", "bukkit", "velocity", "bungeecord", "sponge">>

\* The versions of a listing that carry a loader equal (under case folding)
\* to the platform and, when a server version is given, list it.
ModrinthAltMatches(allVersions, platform, serverVersion) ==
    LET keep(v) ==
            /\ \E k \in 1..Len(v.Loaders) : StrEqualFold(v.Loaders[k], platform)
            /\ (serverVersion # "" => serverVersion \in v.GameVersions)
        kept == SelectSeq(allVersions, keep)
    IN  [k \in 1..Len(kept) |-> [version |-> kept[k], platform |-> platform]]

RECURSIVE ModrinthAltFrom(_, _, _, _, _)
ModrinthAltFrom(platforms, k, allResp, serverVersion, currentPlatform) ==
    IF k > Len(platforms) THEN << >>
    ELSE IF StrLower(platforms[k]) = StrLower(currentPlatform) \/ allResp.err
         THEN ModrinthAltFrom(platforms, k + 1, allResp, serverVersion, currentPlatform)
         ELSE LET found == ModrinthAltMatches(allResp.versions, platforms[k], serverVersion)
              IN  IF Len(found) > 0 THEN found
                  ELSE ModrinthAltFrom(platforms, k + 1, allResp, serverVersion, currentPlatform)

findAlternativeModrinthVersions(allResp, serverVersion, currentPlatform) ==
    ModrinthAltFrom(ModrinthPlatformsToTry(currentPlatform), 1, allResp,
                    serverVersion, currentPlatform)

\* Index of the first TRUE of a sequence of test results, 0 when none: a
\* loop over a slice that stops at the first element passing its test.
FirstIndex(hits) ==
    IF \E k \in 1..Len(hits) : hits[k]
    THEN CHOOSE k \in 1..Len(hits) : hits[k] /\ \A m \in 1..(k - 1) : ~hits[m]
    ELSE 0

\* "Find specific version if required, or latest": index into versions,
\* given their labels (VersionNumber or Name), 0 when targetVersion stays nil.
\* The selection taking the last candidate for "latest".
SelectVersionIndexLast(labels, constraint) ==
    IF constraint # "" /\ constraint # "latest"
    THEN FirstIndex([k \in 1..Len(labels) |-> labels[k] = constraint])
    ELSE Len(labels)

\* The selection falling back to the first candidate when the pinned label
\* is not among them.
SelectVersionIndexLenient(labels, constraint) ==
    LET k == FirstIndex([m \in 1..Len(labels) |-> labels[m] = constraint])
    IN  IF k # 0 THEN k ELSE IF Len(labels) > 0 THEN 1 ELSE 0

SelectVersionIndex(labels, constraint) ==
    IF constraint # "" /\ constraint # "latest"
    THEN FirstIndex([k \in 1..Len(labels) |-> labels[k] = constraint])
    ELSE IF Len(labels) > 0 THEN 1 ELSE 0

\* "Find file": the first primary file, else the first file, else 0.
\* The file choice ignoring the primary mark.
SelectFileIndexFirst(files) == IF Len(files) > 0 THEN 1 ELSE 0

SelectFileIndex(files) ==
    LET p == FirstIndex([k \in 1..Len(files) |-> files[k].Primary])
    IN  IF p # 0 THEN p ELSE IF Len(files) > 0 THEN 1 ELSE 0

\* The batch install taking the last alternative found.
SelectedAltLast(alternativeVersions) == alternativeVersions[Len(alternativeVersions)]

\* selectedAlt := alternativeVersions[0]
SelectedAlt(alternativeVersions) == alternativeVersions[1]

\* A download task (downloadTask), with the fields the job reads.
Task(plugin, source, version, url, filename, hash, index) ==
    [plugin |-> plugin, source |-> source, version |-> version, url |-> url,
     filename |-> filename, hash |-> hash, index |-> index]

\* One iteration of the metadata loop for a Modrinth plugin: the messages
\* printed and the task appended (none after a "continue").
ResolveModrinth(plugin, i, resp, allResp, serverVersion, serverType) ==
    LET labels(vs) == [k \in 1..Len(vs) |-> vs[k].VersionNumber]
        alts == findAlternativeModrinthVersions(allResp, serverVersion, serverType)
        warn == <<Msg("warning", "no compatible versions", plugin.Name, serverType)>>
        versions == IF Len(resp.versions) = 0 /\ Len(alts) > 0
                    THEN <<SelectedAlt(alts).version>> ELSE resp.versions
        pre == IF Len(resp.versions) = 0
               THEN warn \o <<Msg("info", "using alternative", plugin.Name,
                                  StrUpper(SelectedAlt(alts).platform))>>
               ELSE << >>
        vi == SelectVersionIndex(labels(versions), plugin.Version)
        fi == SelectFileIndex(versions[vi].Files)
        file == versions[vi].Files[fi]
    IN  IF resp.err
        THEN [msgs |-> <<Msg("error", "getting info", plugin.Name, "API error")>>, tasks |-> << >>]
        ELSE IF Len(resp.versions) = 0 /\ Len(alts) = 0
        THEN [msgs |-> warn \o <<Msg("error", "no versions on any platform", plugin.Name, "")>>,
              tasks |-> << >>]
        ELSE IF vi = 0
        THEN [msgs |-> pre \o <<Msg("error", "version not found", plugin.Name, plugin.Version)>>,
              tasks |-> << >>]
        ELSE IF fi = 0
        THEN [msgs |-> pre \o <<Msg("error", "no downloadable files", plugin.Name, "")>>,
              tasks |-> << >>]
        ELSE [msgs |-> pre,
              tasks |-> <<Task(plugin, "modrinth", versions[vi].VersionNumber, file.URL,
                               file.Filename, HashesGet(file.Hashes, "sha512"), i)>>]

\* ------------------------------------------------------------------------
\* Hangar catalog (HangarVersion / HangarVersionDownload / HangarFileInfo)
\* ------------------------------------------------------------------------

\* A download entry; FileInfo is a pointer: << >> is nil.
HDownload(fileInfo, downloadURL, externalURL) ==
    [FileInfo |-> fileInfo, DownloadURL |-> downloadURL, ExternalURL |-> externalURL]

HFileInfo(name, sha256) == <<[Name |-> name, Sha256Hash |-> sha256]>>

HVersion(name, deps, downloads) ==
    [Name |-> name, PlatformDependencies |-> deps, Downloads |-> downloads]

HV2 == HVersion("2.0", [PAPER |-> {GameVersion}],
                [PAPER |-> HDownload(HFileInfo("b.jar", Digest("sha256", Payload)),
                                     <<"hangar", "dl">>, << >>)])
HV1 == HVersion("1.0", [PAPER |-> {"1.19"}, VELOCITY |-> {GameVersion}],
                [VELOCITY |-> HDownload(<< >>, << >>, <<"ext", "a.jar">>),
                 PAPER |-> HDownload(<< >>, << >>, << >>)])

\* What the versions endpoint may answer (before client-side filtering).
HangarListings == {Failed, Listing(<< >>), Listing(<<HV2, HV1>>), Listing(<<HV1>>)}

\* What GetProject may answer: an error or the project's SupportedPlatforms.
ProjectFailed == [err |-> TRUE, SupportedPlatforms |-> [PAPER |-> {GameVersion}]]
Project(platforms) == [err |-> FALSE, SupportedPlatforms |-> platforms]
HangarProjects ==
    {ProjectFailed, Project([PAPER |-> {GameVersion}]),
     Project([PAPER |-> {GameVersion}, VELOCITY |-> {GameVersion}])}

\* mapServerTypeToPlatform
mapServerTypeToPlatform(serverType) ==
    LET t == StrLower(serverType)
    IN  CASE t \in {"paper", "purpur", "folia", "spigot", "bukkit"} -> "PAPER"
          [] t = "velocity" -> "VELOCITY"
          [] t = "waterfall" -> "WATERFALL"
          [] OTHER -> ""

\* HangarClient.GetProjectVersions: the client-side filter on the answer.
HangarFilter(versions, gameVersion, platform) ==
    LET platformUpper == StrUpper(platform)
        keep(v) ==
            /\ (platform # "" => platformUpper \in DOMAIN v.PlatformDependencies)
            /\ (gameVersion # "" /\ platform # "" =>
                    /\ platformUpper \in DOMAIN v.PlatformDependencies
                    /\ gameVersion \in v.PlatformDependencies[platformUpper])
    IN  SelectSeq(versions, keep)

HangarGetProjectVersions(resp, gameVersion, platform) ==
    IF resp.err THEN Failed ELSE Listing(HangarFilter(resp.versions, gameVersion, platform))

\* GetDownloadURL: [err, url, hash]
GetDownloadURL(version, serverType) ==
    LET platform == mapServerTypeToPlatform(serverType)
        download == version.Downloads[platform]
        hash == IF download.FileInfo # << >> THEN download.FileInfo[1].Sha256Hash ELSE << >>
        bad == [err |-> TRUE, url |-> << >>, hash |-> << >>]
    IN  IF platform = "" THEN bad
        ELSE IF platform \notin DOMAIN version.Downloads THEN bad
        ELSE IF download.DownloadURL # << >>
             THEN [err |-> FALSE, url |-> download.DownloadURL, hash |-> hash]
        ELSE IF download.ExternalURL # << >>
             THEN [err |-> FALSE, url |-> download.ExternalURL, hash |-> hash]
        ELSE bad

\* strings.HasSuffix(filename, ".jar") on the path segments in use.
HasSuffixJar(segment) == segment \in {"a.jar", "b.jar", "x.jar", "u.jar", "n.jar"}

\* fmt.Sprintf("plugin-%s.jar", version.Name)
FallbackFilename(name) ==
    CASE name = "1.0" -> "plugin-1.0.jar"
      [] name = "2.0" -> "plugin-2.0.jar"
      [] OTHER -> "plugin-.jar"

\* GetFilename
GetFilename(version, serverType) ==
    LET platform == mapServerTypeToPlatform(serverType)
        download == version.Downloads[platform]
        url == IF download.DownloadURL # << >> THEN download.DownloadURL
               ELSE download.ExternalURL
        last == url[Len(url)]
    IN  IF platform \in DOMAIN version.Downloads
        THEN IF download.FileInfo # << >> /\ download.FileInfo[1].Name # ""
             THEN download.FileInfo[1].Name
             ELSE IF url # << >> /\ last # "" /\ HasSuffixJar(last)
                  THEN last
                  ELSE FallbackFilename(version.Name)
        ELSE FallbackFilename(version.Name)

\* strings.SplitN(id, "/", 2): the parts (one part when there is no "/").
SplitN2(id) ==
    LET k == FirstIndex([m \in 1..Len(id) |-> id[m] = "/"])
    IN  IF k = 0 THEN <<id>>
        ELSE <<SubSeq(id, 1, k - 1), SubSeq(id, k + 1, Len(id))>>

\* All orders in which a set may be enumerated (Go map iteration order).
RECURSIVE Orders(_)
Orders(S) ==
    IF S = {} THEN {<< >>}
    ELSE UNION {{<<x>> \o rest : rest \in Orders(S \ {x})} : x \in S}

RECURSIVE HangarAltFrom(_, _, _, _)
HangarAltFrom(platforms, k, resp, serverVersion) ==
    IF k > Len(platforms) THEN << >>
    ELSE LET got == HangarGetProjectVersions(resp, serverVersion, platforms[k])
             found == [m \in 1..Len(got.versions) |->
                          [version |-> got.versions[m], platform |-> platforms[k]]]
         IN  IF ~got.err /\ Len(found) > 0 THEN found
             ELSE HangarAltFrom(platforms, k + 1, resp, serverVersion)

\* findAlternativeHangarVersions: the results it can return, one per
\* iteration order of the supportedPlatforms map.
findAlternativeHangarVersions(resp, serverVersion, currentPlatform, supportedPlatforms) ==
    LET available == {StrLower(pl) : pl \in {q \in DOMAIN supportedPlatforms :
                                                 ~StrEqualFold(q, currentPlatform)}}
    IN  {HangarAltFrom(order, 1, resp, serverVersion) : order \in Orders(available)}

\* One iteration of the metadata loop for a Hangar plugin, given the
\* catalog's answers and the alternatives found: the messages printed, the
\* task appended (none after a "continue") and the value serverType has
\* when the iteration ends.
ResolveHangar(plugin, i, resp, proj, alts, serverVersion, serverType) ==
    LET labels(vs) == [k \in 1..Len(vs) |-> vs[k].Name]
        parts == SplitN2(plugin.HangarID)
        first == HangarGetProjectVersions(resp, serverVersion, serverType)
        empty == Len(first.versions) = 0
        warn == <<Msg("warning", "no compatible versions", plugin.Name, serverType)>>
        versions == IF empty THEN <<SelectedAlt(alts).version>> ELSE first.versions
        effType == IF empty THEN SelectedAlt(alts).platform ELSE serverType
        pre == IF empty
               THEN warn \o <<Msg("info", "using alternative", plugin.Name,
                                  StrUpper(SelectedAlt(alts).platform))>>
               ELSE << >>
        vi == SelectVersionIndex(labels(versions), plugin.Version)
        dl == GetDownloadURL(versions[vi], effType)
        stop(msgs, st) == [msgs |-> msgs, tasks |-> << >>, serverType |-> st]
    IN  IF Len(parts) # 2
        THEN stop(<<Msg("error", "invalid Hangar ID", plugin.Name, "")>>, serverType)
        ELSE IF first.err
        THEN stop(<<Msg("error", "getting info", plugin.Name, "API error")>>, serverType)
        ELSE IF empty /\ proj.err
        THEN stop(warn \o <<Msg("error", "getting project info", plugin.Name, "API error")>>,
                  serverType)
        ELSE IF empty /\ Len(alts) = 0
        THEN stop(warn \o <<Msg("error", "no versions on any platform", plugin.Name, "")>>,
                  serverType)
        ELSE IF vi = 0
        THEN stop(pre \o <<Msg("error", "version not found", plugin.Name, plugin.Version)>>,
                  effType)
        ELSE IF dl.err
        THEN stop(pre \o <<Msg("error", "no downloadable files", plugin.Name, "")>>, effType)
        ELSE [msgs |-> pre,
              tasks |-> <<Task(plugin, "hangar", versions[vi].Name, dl.url,
                               GetFilename(versions[vi], effType), dl.hash, i)>>,
              serverType |-> effType]

\* ------------------------------------------------------------------------
\* The compatibility functions of both sources
\* ------------------------------------------------------------------------

\* The longest category list considered.
MaxCategories == 2

\* ModrinthProject.Categories values; "fabric" is a category no case names.
Categories ==
    {"paper", "purpur", "folia", "spigot", "bukkit", "velocity", "waterfall",
     "bungeecord", "sponge", "fabric"}

\* The server types the switch of ModrinthIsPluginCompatible has a case for.
TableTypes ==
    {"paper", "purpur", "folia", "spigot", "bukkit", "velocity", "waterfall", "sponge"}

\* The serverType arguments considered: the table, the empty string, and a
\* type that is in no table.
CallServerTypes == TableTypes \cup {"", "fabric"}

\* The (compatible bool, exactMatch bool) result pair.
Verdict(compatible, exactMatch) == [compatible |-> compatible, exactMatch |-> exactMatch]

\* One `for _, cat := range categories` loop of the switch: the first category
\* that one of its tests names decides; without one the function falls to
\* its final return.
CategoryLoop(categories, exact, fallback) ==
    LET k == FirstIndex([c \in 1..Len(categories) |-> categories[c] \in exact \cup fallback])
    IN  IF k = 0 THEN Verdict(FALSE, FALSE) ELSE Verdict(TRUE, categories[k] \in exact)

\* ModrinthIsPluginCompatible without any accepted fallback category.
ModrinthIsPluginCompatibleExactOnly(categories, serverType) ==
    IF serverType = "" THEN Verdict(TRUE, TRUE)
    ELSE IF \E c \in 1..Len(categories) : categories[c] = serverType THEN Verdict(TRUE, TRUE)
    ELSE IF serverType = "waterfall" THEN CategoryLoop(categories, {"bungeecord"}, {})
    ELSE Verdict(FALSE, FALSE)

\* ModrinthIsPluginCompatible
ModrinthIsPluginCompatible(categories, serverType) ==
    IF serverType = "" THEN Verdict(TRUE, TRUE)
    ELSE IF \E c \in 1..Len(categories) : categories[c] = serverType THEN Verdict(TRUE, TRUE)
    ELSE CASE serverType = "folia" -> CategoryLoop(categories, {"folia"}, {})
           [] serverType = "paper" -> CategoryLoop(categories, {"paper"}, {"spigot", "bukkit"})
           [] serverType = "purpur" ->
                 CategoryLoop(categories, {"purpur"}, {"paper", "spigot", "bukkit"})
           [] serverType = "spigot" -> CategoryLoop(categories, {"spigot"}, {"bukkit"})
           [] serverType = "bukkit" -> CategoryLoop(categories, {"bukkit"}, {})
           [] serverType = "velocity" -> CategoryLoop(categories, {"velocity"}, {})
           [] serverType = "waterfall" -> CategoryLoop(categories, {"bungeecord"}, {})
           [] serverType = "sponge" -> CategoryLoop(categories, {"sponge"}, {})
           [] OTHER -> Verdict(FALSE, FALSE)

\* HangarProject.SupportedPlatforms values: any set of platform keys, each
\* with an empty or a non-empty list of game versions.
SupportedPlatformMaps ==
    UNION {[keys -> {{}, {GameVersion}}] : keys \in SUBSET {"PAPER", "VELOCITY", "WATERFALL"}}

\* HangarIsPluginCompatible
HangarIsPluginCompatible(supportedPlatforms, serverType) ==
    LET platform == mapServerTypeToPlatform(serverType)
        has(key) == key \in DOMAIN supportedPlatforms
    IN  IF serverType = "" THEN Verdict(TRUE, TRUE)
        ELSE IF platform = "" THEN Verdict(FALSE, FALSE)
        ELSE IF has(platform) /\ supportedPlatforms[platform] # {} THEN Verdict(TRUE, TRUE)
        ELSE CASE serverType = "paper" -> Verdict(has("PAPER"), has("PAPER"))
               [] serverType = "velocity" -> Verdict(has("VELOCITY"), has("VELOCITY"))
               [] serverType = "waterfall" -> Verdict(has("WATERFALL"), has("WATERFALL"))
               [] serverType \in {"purpur", "folia"} -> Verdict(has("PAPER"), FALSE)
               [] serverType \in {"spigot", "bukkit"} -> Verdict(has("PAPER"), FALSE)
               [] OTHER -> Verdict(FALSE, FALSE)

\* ------------------------------------------------------------------------
\* The HTTP side of the catalog clients (ModrinthClient, HangarClient)
\* ------------------------------------------------------------------------

\* http.StatusOK
StatusOK == 200

\* What c.httpClient.Get may give: an error, or a response with a status
\* and a body.
HTTPResponse(failed, status, body) == [failed |-> failed, StatusCode |-> status, Body |-> body]

HTTPResponses ==
    {HTTPResponse(TRUE, 0, "")}
       \cup {HTTPResponse(FALSE, status, body) :
                status \in {StatusOK, 404, 500}, body \in {"[]", "not found"}}

\* %d of a status code.
StatusText(status) ==
    CASE status = StatusOK -> "200"
      [] status = 404 -> "404"
      [] status = 500 -> "500"
      [] OTHER -> "0"

\* What an operation returns: the error (the parts of its text; << >> is
\* nil) and the value.
ClientResult(err, value) == [err |-> err, value |-> value]

\* json.NewDecoder(resp.Body).Decode(&v)
Decode(body) ==
    IF body = "[]" THEN ClientResult(<< >>, "empty list")
    ELSE ClientResult(<<"invalid character">>, "nil")

\* ModrinthClient.SearchProjects, GetProject and GetProjectVersions after
\* the request was built.
ModrinthClientGet(resp) ==
    IF resp.failed THEN ClientResult(<<"Get failed">>, "nil")
    ELSE IF resp.StatusCode # StatusOK
    THEN ClientResult(<<"API error: ", StatusText(resp.StatusCode)>>, "nil")
    ELSE Decode(resp.Body)

\* HangarClient.SearchProjects, GetProject and GetProjectVersions after the
\* request was built (an empty list passes the client-side filter as it is).
HangarClientGet(resp) ==
    IF resp.failed THEN ClientResult(<<"Get failed">>, "nil")
    ELSE IF resp.StatusCode # StatusOK
    THEN ClientResult(<<"API error: ", StatusText(resp.StatusCode), " - ", resp.Body>>, "nil")
    ELSE Decode(resp.Body)

\* ModrinthClient.DownloadFile and HangarClient.DownloadFile
DownloadFile(resp) ==
    IF resp.failed THEN ClientResult(<<"Get failed">>, "nil")
    ELSE IF resp.StatusCode # StatusOK
    THEN ClientResult(<<"API error: ", StatusText(resp.StatusCode)>>, "nil")
    ELSE ClientResult(<< >>, "resp.Body")

\* The operations of a catalog client.
ClientOperations == {"SearchProjects", "GetProject", "GetProjectVersions", "DownloadFile"}

ClientCall(client, operation, resp) ==
    IF operation = "DownloadFile" THEN DownloadFile(resp)
    ELSE IF client = "modrinth" THEN ModrinthClientGet(resp)
    ELSE HangarClientGet(resp)

\* ------------------------------------------------------------------------
\* The plugins directory: file names map to inodes, inodes hold bytes.
\* ------------------------------------------------------------------------

\* Every final path a task can have (filepath.Join(destDir, filename)).
FileNames == <<"a.jar", "b.jar", "plugin-1.0.jar", "plugin-2.0.jar">>

NameSet == {FileNames[k] : k \in 1..Len(FileNames)}

\* Inode numbers: one per file that exists before the run, and per job one
\* for its temp file and one for a destination its fallback creates.
OldInode(name) == CHOOSE k \in 1..Len(FileNames) : FileNames[k] = name
TmpInode(j) == Len(FileNames) + 2 * j - 1
NewInode(j) == Len(FileNames) + 2 * j

\* A plugins directory holding the given names, each with its own inode.
DirWith(present) == [name \in NameSet |-> IF name \in present THEN OldInode(name) ELSE 0]

\* A write of one byte at an offset of a file (holes read as 0).
RECURSIVE Zeros(_)
Zeros(n) == IF n <= 0 THEN << >> ELSE <<0>> \o Zeros(n - 1)

WriteAt(bytes, off, byte) ==
    IF off < Len(bytes) THEN [bytes EXCEPT ![off + 1] = byte]
    ELSE bytes \o Zeros(off - Len(bytes)) \o <<byte>>

\* ------------------------------------------------------------------------
\* package-lock.yml (models.PackageLock / models.PluginLock)
\* ------------------------------------------------------------------------

PluginLock(name, version, hash) == [Name |-> name, Version |-> version, Hash |-> hash]

EmptyMap == [k \in {} |-> PluginLock("", "", << >>)]

MapSet(m, key, v) == [k \in DOMAIN m \cup {key} |-> IF k = key THEN v ELSE m[k]]

StaleLock == MapSet(EmptyMap, <<"m", "a">>, PluginLock("ModA", "0.1", WrongHex))

LockFileOf(state, plugins) == [state |-> state, Plugins |-> plugins]

\* What a run may find: the --force flag, the jars in the plugins directory
\* and package-lock.yml (missing, unparsable, or left by an earlier run).
Environment(f, present, lock) == [force |-> f, dir |-> DirWith(present), lock |-> lock]

Environments ==
    {Environment(FALSE, {}, LockFileOf("missing", EmptyMap)),
     Environment(FALSE, {"a.jar", "b.jar"}, LockFileOf("ok", StaleLock)),
     Environment(TRUE, {"a.jar", "b.jar"}, LockFileOf("ok", StaleLock)),
     Environment(FALSE, {}, LockFileOf("corrupt", EmptyMap))}

\* ------------------------------------------------------------------------
\* Errors
\* ------------------------------------------------------------------------

Err(kind, filename, expected, actual) ==
    [kind |-> kind, filename |-> filename, expected |-> expected, actual |-> actual]

Nil == Err("nil", "", << >>, << >>)

IOErr(kind) == Err(kind, "", << >>, << >>)

\* fmt.Errorf("checksum mismatch for %s:\nExpected: %s\nActual:   %s", ...)
ChecksumErr(filename, expected, actual) == Err("checksum mismatch", filename, expected, actual)

\* ------------------------------------------------------------------------
\* State
\* ------------------------------------------------------------------------

VARIABLES
    pcMain,      \* where installFromPackage is
    force,       \* the --force flag
    serverType,  \* the serverType parameter (a local the loop may overwrite)
    pkg,         \* pkg.Plugins once package.yml is loaded
    lockFile,    \* lockFile.Plugins, the in-memory lock mapping
    diskLock,    \* package-lock.yml on disk
    lockAtStart, \* package-lock.yml as the run found it
    saveCount,   \* calls of lockFile.SaveToFile made by the run
    idx,         \* index of the metadata loop
    tasks,       \* the download tasks
    next,        \* index of the dispatch loop
    out,         \* console output
    bars,        \* globalMultiBar.bars: bar id -> ProgressBar
    job,         \* per goroutine: program counter and locals
    sem,         \* number of elements in the semaphore channel
    mutex,       \* 0 when free, else the job holding it
    wg,          \* the WaitGroup counter
    errors,      \* the shared error list
    dir,         \* plugins directory: file name -> inode, 0 when absent
    inode,       \* inode -> bytes
    retErr,      \* what installFromPackage returned
    call,        \* the catalog answer at hand in the metadata loop, or the library call made
    serve        \* the serve command: the server's output, the two goroutines, the console

vars == <<pcMain, force, serverType, pkg, lockFile, diskLock, lockAtStart, saveCount,
          idx, tasks, next, out, bars, job, sem, mutex, wg, errors, dir, inode, retErr,
          call, serve>>

\* The serve command is not running.
NoServe == [pc |-> "none"]

\* No catalog answer or library call is at hand.
NoCall == [fn |-> "none"]

Jobs == DOMAIN job

\* The job's locals: pc; err, the value downloadFile* returned; tmp, the
\* inode of its temp file while the name exists (0 otherwise); hash, the
\* hasher; written, MultiBarWriter.Written; size, the declared length; dst,
\* the inode os.Create opened in the fallback; copied, the fallback's
\* offset; seenErrors and seenLock, what the job read inside its critical
\* section.  The locals of downloadFile* are gone when the call returns.
NewJob ==
    [pc |-> "idle", err |-> Nil, tmp |-> 0, hash |-> 0, written |-> 0, size |-> 0,
     dst |-> 0, copied |-> 0, seenErrors |-> << >>,
     seenLock |-> EmptyMap]

\* downloadFile* returned e.
Returned(e) == [NewJob EXCEPT !.pc = "returned", !.err = e]

NewBar == [Total |-> 0, Current |-> 0, Finished |-> FALSE]

InodeIds(n) == 1..(Len(FileNames) + 2 * n)

Init ==
    /\ pcMain = "load"
    /\ \E env \in Environments :
          /\ force = env.force
          /\ diskLock = env.lock
          /\ dir = env.dir
    /\ serverType \in ServerTypes
    /\ pkg = << >>
    /\ lockFile = EmptyMap
    /\ lockAtStart = diskLock
    /\ saveCount = 0
    /\ idx = 1
    /\ tasks = << >>
    /\ next = 1
    /\ out = << >>
    /\ bars = << >>
    /\ job = << >>
    /\ sem = 0
    /\ mutex = 0
    /\ wg = 0
    /\ errors = << >>
    /\ inode = [n \in InodeIds(MaxPlugins) |->
                   IF \E name \in NameSet : dir[name] = n THEN OldContent ELSE << >>]
    /\ retErr = "running"
    /\ call = NoCall
    /\ serve = NoServe

\* ------------------------------------------------------------------------
\* installFromPackage: loading
\* ------------------------------------------------------------------------

\* models.LoadPackageFromFile("package.yml")
LoadPackage ==
    /\ pcMain = "load"
    /\ \/ /\ pcMain' = "done"
          /\ retErr' = "could not read package.yml"
          /\ pkg' = pkg
       \/ /\ \E plugins \in PluginLists(serverType) : pkg' = plugins
          /\ pcMain' = "loadlock"
          /\ retErr' = retErr
    /\ UNCHANGED <<serve, call, force, serverType, lockFile, diskLock, lockAtStart, saveCount, idx, tasks,
                   next, out, bars, job, sem, mutex, wg, errors, dir, inode>>

\* models.LoadPackageLockFromFile("package-lock.yml"): a missing file is an
\* empty lock; a file that cannot be read or parsed is an error.
LoadPackageLockFromFile(file) ==
    CASE file.state = "missing" -> [err |-> FALSE, Plugins |-> EmptyMap]
      [] file.state = "ok" -> [err |-> FALSE, Plugins |-> file.Plugins]
      [] OTHER -> [err |-> TRUE, Plugins |-> EmptyMap]

LoadLock ==
    /\ pcMain = "loadlock"
    /\ LET r == LoadPackageLockFromFile(diskLock)
       IN  IF r.err
           THEN /\ pcMain' = "done"
                /\ retErr' = "error loading package-lock.yml"
                /\ lockFile' = lockFile
           ELSE /\ pcMain' = "resolve"
                /\ retErr' = retErr
                /\ lockFile' = r.Plugins
    /\ UNCHANGED <<serve, call, force, serverType, pkg, diskLock, lockAtStart, saveCount, idx, tasks,
                   next, out, bars, job, sem, mutex, wg, errors, dir, inode>>

\* ------------------------------------------------------------------------
\* installFromPackage: "Fetch metadata for all plugins first"
\* ------------------------------------------------------------------------

\* What one iteration of the metadata loop got from the catalog client: the
\* error and the list GetProjectVersions returned, whether the alternative
\* platform search ran, and what it returned.  These are locals of the loop
\* body; they are gone when the loop ends.  With them goes what the
\* iteration printed.
Answer(source, index, err, versions, searched, alternatives, printed) ==
    [fn |-> "GetProjectVersions", source |-> source, index |-> index, err |-> err,
     versions |-> versions, searched |-> searched, alternatives |-> alternatives,
     printed |-> printed]

ResolveModrinthPlugin ==
    /\ pcMain = "resolve"
    /\ idx <= Len(pkg)
    /\ pkg[idx].ModrinthID # << >>
    /\ \E resp \in ModrinthListings, allResp \in ModrinthAllListings :
          LET r == ResolveModrinth(pkg[idx], idx, resp, allResp, GameVersion, serverType)
              searched == ~resp.err /\ Len(resp.versions) = 0
          IN  /\ tasks' = tasks \o r.tasks
              /\ out' = out \o r.msgs
              /\ call' = Answer("modrinth", idx, resp.err, resp.versions, searched,
                                IF searched
                                THEN findAlternativeModrinthVersions(allResp, GameVersion,
                                                                     serverType)
                                ELSE << >>,
                                r.msgs)
    /\ idx' = idx + 1
    /\ UNCHANGED <<serve, pcMain, force, serverType, pkg, lockFile, diskLock, lockAtStart, saveCount,
                   next, bars, job, sem, mutex, wg, errors, dir, inode, retErr>>

ResolveHangarPlugin ==
    /\ pcMain = "resolve"
    /\ idx <= Len(pkg)
    /\ pkg[idx].ModrinthID = << >>
    /\ pkg[idx].HangarID # << >>
    /\ \E resp \in HangarListings, proj \in HangarProjects :
          LET first == HangarGetProjectVersions(resp, GameVersion, serverType)
              search == ~first.err /\ Len(first.versions) = 0 /\ ~proj.err
              found == IF search
                       THEN findAlternativeHangarVersions(resp, GameVersion, serverType,
                                                          proj.SupportedPlatforms)
                       ELSE {<< >>}
          IN  \E alts \in found :
                 LET r == ResolveHangar(pkg[idx], idx, resp, proj, alts, GameVersion,
                                        serverType)
                 IN  /\ tasks' = tasks \o r.tasks
                     /\ out' = out \o r.msgs
                     /\ serverType' = r.serverType
                     /\ call' = Answer("hangar", idx, first.err, first.versions, search, alts,
                                       r.msgs)
    /\ idx' = idx + 1
    /\ UNCHANGED <<serve, pcMain, force, pkg, lockFile, diskLock, lockAtStart, saveCount,
                   next, bars, job, sem, mutex, wg, errors, dir, inode, retErr>>

\* A plugin with neither identifier is skipped with a warning.
ResolveNoSource ==
    /\ pcMain = "resolve"
    /\ idx <= Len(pkg)
    /\ pkg[idx].ModrinthID = << >>
    /\ pkg[idx].HangarID = << >>
    /\ out' = Append(out, Msg("warning", "no Modrinth or Hangar ID", pkg[idx].Name, ""))
    /\ idx' = idx + 1
    /\ call' = NoCall
    /\ UNCHANGED <<serve, pcMain, force, serverType, pkg, lockFile, diskLock, lockAtStart, saveCount,
                   tasks, next, bars, job, sem, mutex, wg, errors, dir, inode, retErr>>

\* ui.InitMultiBar and one ui.AddBar per task: bar ids are 1..len(tasks),
\* so taskBars[i] is bar i+1 for the task at (0-based) position i.
PrepareBars ==
    /\ pcMain = "resolve"
    /\ idx > Len(pkg)
    /\ bars' = [b \in 1..Len(tasks) |-> NewBar]
    /\ job' = [j \in 1..Len(tasks) |-> NewJob]
    /\ pcMain' = IF Len(tasks) = 0 THEN "wait" ELSE "dispatch"
    /\ call' = NoCall
    /\ UNCHANGED <<serve, force, serverType, pkg, lockFile, diskLock, lockAtStart, saveCount, idx,
                   tasks, next, out, sem, mutex, wg, errors, dir, inode, retErr>>

\* wg.Add(1); go func(t, taskIdx) {...}(task, i)
Dispatch ==
    /\ pcMain = "dispatch"
    /\ next <= Len(tasks)
    /\ wg' = wg + 1
    /\ job' = [job EXCEPT ![next].pc = "spawned"]
    /\ next' = next + 1
    /\ pcMain' = IF next = Len(tasks) THEN "wait" ELSE "dispatch"
    /\ UNCHANGED <<serve, call, force, serverType, pkg, lockFile, diskLock, lockAtStart, saveCount, idx,
                   tasks, out, bars, sem, mutex, errors, dir, inode, retErr>>

\* ------------------------------------------------------------------------
\* Progress bars (ui.SetBarTotal, ui.UpdateBar, ui.FinishBar)
\* ------------------------------------------------------------------------

SetBarTotal(bs, id, total) ==
    IF id \in DOMAIN bs THEN [bs EXCEPT ![id].Total = total] ELSE bs

UpdateBar(bs, id, current) ==
    IF id \in DOMAIN bs THEN [bs EXCEPT ![id].Current = current] ELSE bs

FinishBar(bs, id) ==
    IF id \in DOMAIN bs
    THEN [bs EXCEPT ![id].Finished = TRUE, ![id].Current = bs[id].Total]
    ELSE bs

\* ------------------------------------------------------------------------
\* The download goroutine
\* ------------------------------------------------------------------------

Alive == pcMain \in {"dispatch", "wait"}

DestOf(j) == tasks[j].filename

\* sha512.New() in downloadFileModrinth, sha256.New() in downloadFileHangar
AlgOf(j) == IF tasks[j].source = "modrinth" THEN "sha512" ELSE "sha256"

\* An inode keeps its bytes while a name or an open descriptor refers to it.
Collect(ino, d, jb) ==
    [n \in DOMAIN ino |->
        IF \/ \E name \in DOMAIN d : d[name] = n
           \/ \E j \in DOMAIN jb : jb[j].tmp = n \/ jb[j].dst = n
        THEN ino[n] ELSE << >>]

\* The goroutine starts its download without waiting for room in the channel.
AcquireUnbounded(j) ==
    /\ Alive
    /\ job[j].pc = "spawned"
    /\ sem' = sem + 1
    /\ job' = [job EXCEPT ![j].pc = "download"]
    /\ UNCHANGED <<serve, call, pcMain, force, serverType, pkg, lockFile, diskLock, lockAtStart, saveCount,
                   idx, tasks, next, out, bars, mutex, wg, errors, dir, inode, retErr>>

\* semaphore <- struct{}{}
Acquire(j) ==
    /\ Alive
    /\ job[j].pc = "spawned"
    /\ sem < SemaphoreCap
    /\ sem' = sem + 1
    /\ job' = [job EXCEPT ![j].pc = "download"]
    /\ UNCHANGED <<serve, call, pcMain, force, serverType, pkg, lockFile, diskLock, lockAtStart, saveCount,
                   idx, tasks, next, out, bars, mutex, wg, errors, dir, inode, retErr>>

\* downloadFile*: the destination exists and force is off.
SkipExisting(j) ==
    /\ Alive
    /\ job[j].pc = "download"
    /\ ~force
    /\ dir[DestOf(j)] # 0
    /\ bars' = FinishBar(UpdateBar(SetBarTotal(bars, j, 1), j, 1), j)
    /\ job' = [job EXCEPT ![j] = Returned(Nil)]
    /\ UNCHANGED <<serve, call, pcMain, force, serverType, pkg, lockFile, diskLock, lockAtStart, saveCount,
                   idx, tasks, next, out, sem, mutex, wg, errors, dir, inode, retErr>>

\* resp.ContentLength: the CDNs declare the length, an external host
\* sends none (-1).
ContentLength(url) == IF url[1] = "ext" THEN -1 ELSE Len(Payload)

\* What client.DownloadFile may answer: an error, or the body with its
\* declared length; a host that is down only ever gives the error.
DownloadResponses(url) ==
    IF url[1] = "down" THEN {[err |-> TRUE, size |-> 0]}
    ELSE {[err |-> TRUE, size |-> 0], [err |-> FALSE, size |-> ContentLength(url)]}

\* The download is made without looking for the file first.
OpenDownloadAlways(j) ==
    /\ Alive
    /\ job[j].pc = "download"
    /\ \E r \in DownloadResponses(tasks[j].url), tempCreated \in BOOLEAN :
          IF r.err
          THEN /\ job' = [job EXCEPT ![j] = Returned(IOErr("download failed"))]
               /\ UNCHANGED <<bars, inode>>
          ELSE /\ bars' = IF r.size > 0 THEN SetBarTotal(bars, j, r.size) ELSE bars
               /\ IF tempCreated
                  THEN /\ job' = [job EXCEPT ![j].pc = "stream", ![j].size = r.size,
                                             ![j].tmp = TmpInode(j),
                                             ![j].hash = HashNew(AlgOf(j)),
                                             ![j].written = 0]
                       /\ inode' = [inode EXCEPT ![TmpInode(j)] = << >>]
                  ELSE /\ job' = [job EXCEPT ![j] = Returned(IOErr("could not create temp file"))]
                       /\ inode' = inode
    /\ UNCHANGED <<serve, call, pcMain, force, serverType, pkg, lockFile, diskLock, lockAtStart, saveCount,
                   idx, tasks, next, out, sem, mutex, wg, errors, dir, retErr>>

\* client.DownloadFile, ui.SetBarTotal when the size is known, os.CreateTemp.
OpenDownload(j) ==
    /\ Alive
    /\ job[j].pc = "download"
    /\ force \/ dir[DestOf(j)] = 0
    /\ \E r \in DownloadResponses(tasks[j].url), tempCreated \in BOOLEAN :
          IF r.err
          THEN /\ job' = [job EXCEPT ![j] = Returned(IOErr("download failed"))]
               /\ UNCHANGED <<bars, inode>>
          ELSE /\ bars' = IF r.size > 0 THEN SetBarTotal(bars, j, r.size) ELSE bars
               /\ IF tempCreated
                  THEN /\ job' = [job EXCEPT ![j].pc = "stream", ![j].size = r.size,
                                             ![j].tmp = TmpInode(j),
                                             ![j].hash = HashNew(AlgOf(j)),
                                             ![j].written = 0]
                       /\ inode' = [inode EXCEPT ![TmpInode(j)] = << >>]
                  ELSE /\ job' = [job EXCEPT ![j] = Returned(IOErr("could not create temp file"))]
                       /\ inode' = inode
    /\ UNCHANGED <<serve, call, pcMain, force, serverType, pkg, lockFile, diskLock, lockAtStart, saveCount,
                   idx, tasks, next, out, sem, mutex, wg, errors, dir, retErr>>

\* One chunk of io.Copy(multiWriter, reader): the temp file, the hasher and
\* the MultiBarWriter each receive it.
StreamChunk(j) ==
    /\ Alive
    /\ job[j].pc = "stream"
    /\ job[j].written < Len(Payload)
    /\ LET byte == Payload[job[j].written + 1]
       IN  /\ inode' = [inode EXCEPT ![job[j].tmp] = Append(@, byte)]
           /\ job' = [job EXCEPT ![j].hash = HashWrite(@, byte),
                                 ![j].written = @ + 1]
           /\ bars' = UpdateBar(bars, j, job[j].written + 1)
    /\ UNCHANGED <<serve, call, pcMain, force, serverType, pkg, lockFile, diskLock, lockAtStart, saveCount,
                   idx, tasks, next, out, sem, mutex, wg, errors, dir, retErr>>

\* io.Copy returns an error (the read or the write failed); the deferred
\* tmpFile.Close and os.Remove run.
StreamFail(j) ==
    /\ Alive
    /\ job[j].pc = "stream"
    /\ job[j].written < Len(Payload)
    /\ LET jb == [job EXCEPT ![j] = Returned(IOErr("copy failed"))]
       IN  /\ job' = jb
           /\ inode' = Collect(inode, dir, jb)
    /\ UNCHANGED <<serve, call, pcMain, force, serverType, pkg, lockFile, diskLock, lockAtStart, saveCount,
                   idx, tasks, next, out, bars, sem, mutex, wg, errors, dir, retErr>>

\* The two digests are compared letter for letter.
VerifyChecksumExact(filename, expectedHash, hasher) ==
    LET calculatedHash == HexEncode(hasher)
    IN  IF expectedHash # << >> /\ calculatedHash # expectedHash
        THEN ChecksumErr(filename, expectedHash, calculatedHash)
        ELSE Nil

\* "Verify Checksum": nil when the check passes or is not made.
VerifyChecksum(filename, expectedHash, hasher) ==
    LET calculatedHash == HexEncode(hasher)
    IN  IF expectedHash # << >> /\ ~EqualFold(calculatedHash, expectedHash)
        THEN ChecksumErr(filename, expectedHash, calculatedHash)
        ELSE Nil

\* The temp file is not removed when the checksum check fails.
FinishStreamKeepTemp(j) ==
    /\ Alive
    /\ job[j].pc = "stream"
    /\ job[j].written = Len(Payload)
    /\ bars' = FinishBar(bars, j)
    /\ LET e == VerifyChecksum(tasks[j].filename, tasks[j].hash, job[j].hash)
       IN  job' = IF e # Nil
                  THEN [job EXCEPT ![j].pc = "returned", ![j].err = e]
                  ELSE [job EXCEPT ![j].pc = "publish"]
    /\ inode' = inode
    /\ UNCHANGED <<serve, call, pcMain, force, serverType, pkg, lockFile, diskLock, lockAtStart, saveCount,
                   idx, tasks, next, out, sem, mutex, wg, errors, dir, retErr>>

\* The stream ended: ui.FinishBar, then the checksum check; on a mismatch
\* the call returns and the deferred os.Remove deletes the temp file.
FinishStream(j) ==
    /\ Alive
    /\ job[j].pc = "stream"
    /\ job[j].written = Len(Payload)
    /\ bars' = FinishBar(bars, j)
    /\ LET e == VerifyChecksum(tasks[j].filename, tasks[j].hash, job[j].hash)
           jb == IF e # Nil
                 THEN [job EXCEPT ![j] = Returned(e)]
                 ELSE [job EXCEPT ![j].pc = "publish"]
       IN  /\ job' = jb
           /\ inode' = Collect(inode, dir, jb)
    /\ UNCHANGED <<serve, call, pcMain, force, serverType, pkg, lockFile, diskLock, lockAtStart, saveCount,
                   idx, tasks, next, out, sem, mutex, wg, errors, dir, retErr>>

\* tmpFile.Close(); os.Rename(tmpFile.Name(), destPath) succeeds.
Rename(j) ==
    /\ Alive
    /\ job[j].pc = "publish"
    /\ LET d == [dir EXCEPT ![DestOf(j)] = job[j].tmp]
           jb == [job EXCEPT ![j] = Returned(Nil)]
       IN  /\ dir' = d
           /\ job' = jb
           /\ inode' = Collect(inode, d, jb)
    /\ UNCHANGED <<serve, call, pcMain, force, serverType, pkg, lockFile, diskLock, lockAtStart, saveCount,
                   idx, tasks, next, out, bars, sem, mutex, wg, errors, retErr>>

\* os.Rename fails; the fallback opens the temp file and os.Create opens the
\* destination, truncating a file that exists and creating one that does
\* not.  Either open may fail, and then the call returns its error.
RenameFallback(j) ==
    /\ Alive
    /\ job[j].pc = "publish"
    /\ \E outcome \in {"open failed", "create failed", "created"} :
          IF outcome = "created"
          THEN LET target == IF dir[DestOf(j)] # 0 THEN dir[DestOf(j)] ELSE NewInode(j)
               IN  /\ dir' = [dir EXCEPT ![DestOf(j)] = target]
                   /\ inode' = [inode EXCEPT ![target] = << >>]
                   /\ job' = [job EXCEPT ![j].pc = "copy", ![j].dst = target,
                                         ![j].copied = 0]
          ELSE LET jb == [job EXCEPT ![j] = Returned(IOErr(outcome))]
               IN  /\ job' = jb
                   /\ inode' = Collect(inode, dir, jb)
                   /\ dir' = dir
    /\ UNCHANGED <<serve, call, pcMain, force, serverType, pkg, lockFile, diskLock, lockAtStart, saveCount,
                   idx, tasks, next, out, bars, sem, mutex, wg, errors, retErr>>

\* One chunk of the fallback's io.Copy(dst, src).
CopyChunk(j) ==
    /\ Alive
    /\ job[j].pc = "copy"
    /\ job[j].copied < Len(inode[job[j].tmp])
    /\ inode' = [inode EXCEPT ![job[j].dst] =
                     WriteAt(@, job[j].copied, inode[job[j].tmp][job[j].copied + 1])]
    /\ job' = [job EXCEPT ![j].copied = @ + 1]
    /\ UNCHANGED <<serve, call, pcMain, force, serverType, pkg, lockFile, diskLock, lockAtStart, saveCount,
                   idx, tasks, next, out, bars, sem, mutex, wg, errors, dir, retErr>>

\* The fallback's io.Copy fails part-way: the call returns the error; the
\* deferred calls close both files and remove the temp file.
CopyFail(j) ==
    /\ Alive
    /\ job[j].pc = "copy"
    /\ job[j].copied < Len(inode[job[j].tmp])
    /\ LET jb == [job EXCEPT ![j] = Returned(IOErr("copy failed"))]
       IN  /\ job' = jb
           /\ inode' = Collect(inode, dir, jb)
    /\ UNCHANGED <<serve, call, pcMain, force, serverType, pkg, lockFile, diskLock, lockAtStart, saveCount,
                   idx, tasks, next, out, bars, sem, mutex, wg, errors, dir, retErr>>

\* The fallback's io.Copy reaches the end of the temp file: return nil.
CopyDone(j) ==
    /\ Alive
    /\ job[j].pc = "copy"
    /\ job[j].copied = Len(inode[job[j].tmp])
    /\ LET jb == [job EXCEPT ![j] = Returned(Nil)]
       IN  /\ job' = jb
           /\ inode' = Collect(inode, dir, jb)
    /\ UNCHANGED <<serve, call, pcMain, force, serverType, pkg, lockFile, diskLock, lockAtStart, saveCount,
                   idx, tasks, next, out, bars, sem, mutex, wg, errors, dir, retErr>>

\* ------------------------------------------------------------------------
\* The goroutine after the download returned
\* ------------------------------------------------------------------------

\* fmt.Errorf("error downloading %s: %v", t.plugin.Name, err)
DownloadError(j) == [name |-> tasks[j].plugin.Name, err |-> job[j].err]

LockKeyOf(j) ==
    IF tasks[j].source = "modrinth" THEN tasks[j].plugin.ModrinthID
    ELSE tasks[j].plugin.HangarID

\* models.PluginLock{Name: t.plugin.Name, Version: version, Hash: hash}
LockEntryOf(j) == PluginLock(tasks[j].plugin.Name, tasks[j].version, tasks[j].hash)

\* The goroutine enters the section without waiting for the mutex.
MutexLockNoWait(j) ==
    /\ Alive
    /\ job[j].pc = "returned"
    /\ mutex' = j
    /\ job' = [job EXCEPT ![j].pc = "locked"]
    /\ UNCHANGED <<serve, call, pcMain, force, serverType, pkg, lockFile, diskLock, lockAtStart, saveCount,
                   idx, tasks, next, out, bars, sem, wg, errors, dir, inode, retErr>>

\* mutex.Lock()
MutexLock(j) ==
    /\ Alive
    /\ job[j].pc = "returned"
    /\ mutex = 0
    /\ mutex' = j
    /\ job' = [job EXCEPT ![j].pc = "locked"]
    /\ UNCHANGED <<serve, call, pcMain, force, serverType, pkg, lockFile, diskLock, lockAtStart, saveCount,
                   idx, tasks, next, out, bars, sem, wg, errors, dir, inode, retErr>>

\* The read half of "errors = append(errors, ...)" or of the map assignment.
ReadShared(j) ==
    /\ Alive
    /\ job[j].pc = "locked"
    /\ job' = [job EXCEPT ![j].pc = "update", ![j].seenErrors = errors,
                          ![j].seenLock = lockFile]
    /\ UNCHANGED <<serve, call, pcMain, force, serverType, pkg, lockFile, diskLock, lockAtStart, saveCount,
                   idx, tasks, next, out, bars, sem, mutex, wg, errors, dir, inode, retErr>>

\* The goroutine also saves package-lock.yml each time it stores an entry.
WriteSharedAndSave(j) ==
    /\ Alive
    /\ job[j].pc = "update"
    /\ IF job[j].err # Nil
       THEN /\ errors' = Append(job[j].seenErrors, DownloadError(j))
            /\ UNCHANGED <<lockFile, diskLock, saveCount>>
       ELSE /\ lockFile' = MapSet(job[j].seenLock, LockKeyOf(j), LockEntryOf(j))
            /\ diskLock' = LockFileOf("ok", lockFile')
            /\ saveCount' = saveCount + 1
            /\ errors' = errors
    /\ job' = [job EXCEPT ![j].pc = "unlock", ![j].seenErrors = << >>,
                          ![j].seenLock = EmptyMap]
    /\ UNCHANGED <<serve, call, pcMain, force, serverType, pkg, lockAtStart,
                   idx, tasks, next, out, bars, sem, mutex, wg, dir, inode, retErr>>

\* The goroutine stores its entry whatever the download returned.
WriteSharedAlways(j) ==
    /\ Alive
    /\ job[j].pc = "update"
    /\ lockFile' = MapSet(job[j].seenLock, LockKeyOf(j), LockEntryOf(j))
    /\ errors' = IF job[j].err # Nil THEN Append(job[j].seenErrors, DownloadError(j))
                 ELSE errors
    /\ job' = [job EXCEPT ![j].pc = "unlock", ![j].seenErrors = << >>,
                          ![j].seenLock = EmptyMap]
    /\ UNCHANGED <<serve, call, pcMain, force, serverType, pkg, diskLock, lockAtStart, saveCount,
                   idx, tasks, next, out, bars, sem, mutex, wg, dir, inode, retErr>>

\* The write half: the error is appended, or the lock entry is stored.
WriteShared(j) ==
    /\ Alive
    /\ job[j].pc = "update"
    /\ IF job[j].err # Nil
       THEN /\ errors' = Append(job[j].seenErrors, DownloadError(j))
            /\ lockFile' = lockFile
       ELSE /\ lockFile' = MapSet(job[j].seenLock, LockKeyOf(j), LockEntryOf(j))
            /\ errors' = errors
    /\ job' = [job EXCEPT ![j].pc = "unlock", ![j].seenErrors = << >>,
                          ![j].seenLock = EmptyMap]
    /\ UNCHANGED <<serve, call, pcMain, force, serverType, pkg, diskLock, lockAtStart, saveCount,
                   idx, tasks, next, out, bars, sem, mutex, wg, dir, inode, retErr>>

\* mutex.Unlock()
MutexUnlock(j) ==
    /\ Alive
    /\ job[j].pc = "unlock"
    /\ mutex' = 0
    /\ job' = [job EXCEPT ![j].pc = "exit"]
    /\ UNCHANGED <<serve, call, pcMain, force, serverType, pkg, lockFile, diskLock, lockAtStart, saveCount,
                   idx, tasks, next, out, bars, sem, wg, errors, dir, inode, retErr>>

\* The deferred calls of the goroutine: <-semaphore, then wg.Done().
\* The goroutine ends without taking its element back out of the channel.
JobExitKeepPermit(j) ==
    /\ Alive
    /\ job[j].pc = "exit"
    /\ wg' = wg - 1
    /\ job' = [job EXCEPT ![j].pc = "done"]
    /\ UNCHANGED <<serve, call, pcMain, force, serverType, pkg, lockFile, diskLock, lockAtStart, saveCount,
                   idx, tasks, next, out, bars, sem, mutex, errors, dir, inode, retErr>>

JobExit(j) ==
    /\ Alive
    /\ job[j].pc = "exit"
    /\ sem' = sem - 1
    /\ wg' = wg - 1
    /\ job' = [job EXCEPT ![j].pc = "done"]
    /\ UNCHANGED <<serve, call, pcMain, force, serverType, pkg, lockFile, diskLock, lockAtStart, saveCount,
                   idx, tasks, next, out, bars, mutex, errors, dir, inode, retErr>>

\* ------------------------------------------------------------------------
\* installFromPackage: join, report, save
\* ------------------------------------------------------------------------

\* "Print success messages": one line per task.
InstalledMessages ==
    [k \in 1..Len(tasks) |->
        Msg("success", "installed", tasks[k].plugin.Name, tasks[k].version)]

\* "Report errors"
FailureMessages ==
    IF Len(errors) > 0
    THEN <<Msg("warning", "some downloads failed", "", "")>> \o
         [k \in 1..Len(errors) |-> Msg("error", "download", errors[k].name, errors[k].err.kind)]
    ELSE << >>

\* The run gives up, with an error, when a download has failed.
JoinAndReportFailFast ==
    /\ pcMain = "wait"
    /\ wg = 0
    /\ out' = out \o InstalledMessages \o FailureMessages
    /\ IF Len(errors) > 0
       THEN pcMain' = "done" /\ retErr' = "some downloads failed"
       ELSE pcMain' = "save" /\ retErr' = retErr
    /\ UNCHANGED <<serve, call, force, serverType, pkg, lockFile, diskLock, lockAtStart, saveCount, idx,
                   tasks, next, bars, job, sem, mutex, wg, errors, dir, inode>>

\* wg.Wait() returns; ui.CloseMultiBar(); the messages are printed.
JoinAndReport ==
    /\ pcMain = "wait"
    /\ wg = 0
    /\ out' = out \o InstalledMessages \o FailureMessages
    /\ pcMain' = "save"
    /\ UNCHANGED <<serve, call, force, serverType, pkg, lockFile, diskLock, lockAtStart, saveCount, idx,
                   tasks, next, bars, job, sem, mutex, wg, errors, dir, inode, retErr>>

\* The lock file is saved only when no download failed.
SaveLockUnlessErrors ==
    /\ pcMain = "save"
    /\ IF Len(errors) > 0
       THEN /\ UNCHANGED <<saveCount, diskLock>>
            /\ retErr' = "nil"
       ELSE /\ saveCount' = saveCount + 1
            /\ \/ /\ diskLock' = LockFileOf("ok", lockFile)
                  /\ retErr' = "nil"
               \/ /\ diskLock' \in {diskLock, LockFileOf("corrupt", EmptyMap)}
                  /\ retErr' = "error saving package-lock.yml"
    /\ pcMain' = "done"
    /\ UNCHANGED <<serve, call, force, serverType, pkg, lockFile, lockAtStart, idx, tasks, next, out,
                   bars, job, sem, mutex, wg, errors, dir, inode>>

\* lockFile.SaveToFile("package-lock.yml"): os.WriteFile replaces the file,
\* or fails before writing, or fails after truncating it.
SaveLock ==
    /\ pcMain = "save"
    /\ saveCount' = saveCount + 1
    /\ \/ /\ diskLock' = LockFileOf("ok", lockFile)
          /\ retErr' = "nil"
       \/ /\ diskLock' \in {diskLock, LockFileOf("corrupt", EmptyMap)}
          /\ retErr' = "error saving package-lock.yml"
    /\ pcMain' = "done"
    /\ UNCHANGED <<serve, call, force, serverType, pkg, lockFile, lockAtStart, idx, tasks, next, out,
                   bars, job, sem, mutex, wg, errors, dir, inode>>

Next ==
    \/ LoadPackage
    \/ LoadLock
    \/ ResolveModrinthPlugin
    \/ ResolveHangarPlugin
    \/ ResolveNoSource
    \/ PrepareBars
    \/ Dispatch
    \/ \E j \in Jobs : Acquire(j)
    \/ \E j \in Jobs : SkipExisting(j)
    \/ \E j \in Jobs : OpenDownload(j)
    \/ \E j \in Jobs : StreamChunk(j)
    \/ \E j \in Jobs : StreamFail(j)
    \/ \E j \in Jobs : FinishStream(j)
    \/ \E j \in Jobs : Rename(j)
    \/ \E j \in Jobs : RenameFallback(j)
    \/ \E j \in Jobs : CopyChunk(j)
    \/ \E j \in Jobs : CopyFail(j)
    \/ \E j \in Jobs : CopyDone(j)
    \/ \E j \in Jobs : MutexLock(j)
    \/ \E j \in Jobs : ReadShared(j)
    \/ \E j \in Jobs : WriteShared(j)
    \/ \E j \in Jobs : MutexUnlock(j)
    \/ \E j \in Jobs : JobExit(j)
    \/ JoinAndReport
    \/ SaveLock

Spec == Init /\ [][Next]_vars

\* ------------------------------------------------------------------------
\* The worker pool alone: installFromPackage from ui.InitMultiBar on, with
\* more tasks than the semaphore has room for.  package.yml declares the
\* same two Modrinth plugins several times: the jar of the first is already
\* in the plugins directory, the file of the second is on a host that does
\* not answer.
\* ------------------------------------------------------------------------

MFDown == MFile(<<"down", "c.jar">>, "plugin-1.0.jar", TRUE,
                [sha512 |-> Digest("sha512", Payload)])

PoolPlugin(i, failing) == IF i \in failing THEN PModPinned ELSE PModLatest

PoolTask(i, failing) ==
    IF i \in failing
    THEN Task(PModPinned, "modrinth", MV1.VersionNumber, MFDown.URL, MFDown.Filename,
              HashesGet(MFDown.Hashes, "sha512"), i)
    ELSE Task(PModLatest, "modrinth", MV3.VersionNumber, MFMain.URL, MFMain.Filename,
              HashesGet(MFMain.Hashes, "sha512"), i)

InitPool ==
    /\ force = FALSE
    /\ serverType = "paper"
    /\ \E n \in 0..MaxPoolTasks, failing \in {{}, {1}} :
          /\ pkg = [i \in 1..n |-> PoolPlugin(i, failing)]
          /\ tasks = [i \in 1..n |-> PoolTask(i, failing)]
          /\ bars = [b \in 1..n |-> NewBar]
          /\ job = [j \in 1..n |-> NewJob]
          /\ idx = n + 1
          /\ pcMain = IF n = 0 THEN "wait" ELSE "dispatch"
    /\ lockFile = StaleLock
    /\ diskLock = LockFileOf("ok", StaleLock)
    /\ lockAtStart = diskLock
    /\ saveCount = 0
    /\ next = 1
    /\ out = << >>
    /\ sem = 0
    /\ mutex = 0
    /\ wg = 0
    /\ errors = << >>
    /\ dir = DirWith({"a.jar"})
    /\ inode = [n \in InodeIds(MaxPoolTasks) |->
                   IF n = OldInode("a.jar") THEN OldContent ELSE << >>]
    /\ retErr = "running"
    /\ call = NoCall
    /\ serve = NoServe

\* The steps these runs can take: no download gets as far as a response body.
NextPool ==
    \/ Dispatch
    \/ \E j \in Jobs : Acquire(j)
    \/ \E j \in Jobs : SkipExisting(j)
    \/ \E j \in Jobs : OpenDownload(j)
    \/ \E j \in Jobs : MutexLock(j)
    \/ \E j \in Jobs : ReadShared(j)
    \/ \E j \in Jobs : WriteShared(j)
    \/ \E j \in Jobs : MutexUnlock(j)
    \/ \E j \in Jobs : JobExit(j)
    \/ JoinAndReport
    \/ SaveLock

SpecPool == InitPool /\ [][NextPool]_vars

\* The same runs under a scheduler that does not stop while a goroutine or
\* the coordinator can take a step: every download call returns, and a
\* goroutine that can run is run.
FairSpecPool == SpecPool /\ WF_vars(NextPool)

\* ------------------------------------------------------------------------
\* Library calls made outside a batch install (the search and single-plugin
\* commands)
\* ------------------------------------------------------------------------

\* The longest response body whose progress is followed.
MaxBody == 2

\* resp.ContentLength values: none declared (-1), 0, and lengths below, at
\* and above the length of the body.
DeclaredLengths == {-1, 0, 1, 2, 3}

\* uint64(n) of an int64 of small magnitude, as four 16-bit limbs, most
\* significant first: a negative n wraps to 2^64 + n.
ToUint64(n) == IF n >= 0 THEN <<0, 0, 0, n>> ELSE <<65535, 65535, 65535, 65536 + n>>

\* 1024*1024*1024*1024 = 2^40
TeraByte == <<0, 256, 0, 0>>

\* a > b on uint64 values.
Uint64Greater(a, b) ==
    \E k \in 1..4 : a[k] > b[k] /\ \A m \in 1..(k - 1) : a[m] = b[m]

\* What one rendering shows: the bytes so far alone, or a percentage of a
\* denominator; "hundred" is the forced 100.00% line.
Report(kind, current, denominator, finished) ==
    [kind |-> kind, current |-> current, denominator |-> denominator, finished |-> finished]

\* WriteCounter.PrintProgress taking only a zero total for unknown.
PrintProgressZeroOnly(total, read) ==
    IF total = ToUint64(0) THEN Report("bytes", read, << >>, FALSE)
    ELSE Report("percent", read, total, FALSE)

\* WriteCounter.PrintProgress
PrintProgress(total, read) ==
    IF total = ToUint64(0) \/ Uint64Greater(total, TeraByte)
    THEN Report("bytes", read, << >>, FALSE)
    ELSE Report("percent", read, total, FALSE)

\* MultiProgressBar.render, for one bar.
Render(bar) ==
    IF bar.Total > 0 THEN Report("percent", bar.Current, ToUint64(bar.Total), bar.Finished)
    ELSE Report("bytes", bar.Current, << >>, bar.Finished)

\* downloadFile* with progressBarID = -1: a WriteCounter{Total: uint64(size)}
\* reports every chunk, and at the end 100.00% is printed when size <= 0.
CounterReports(size, n) ==
    [k \in 1..n |-> PrintProgress(ToUint64(size), k)]
       \o (IF size <= 0 THEN <<Report("hundred", n, << >>, TRUE)>> ELSE << >>)

\* downloadFile* with a bar: SetBarTotal when size > 0, UpdateBar with every
\* chunk, FinishBar at the end; each of them renders.
BarReports(size, n) ==
    LET start == IF size > 0 THEN SetBarTotal(<<NewBar>>, 1, size) ELSE <<NewBar>>
    IN  (IF size > 0 THEN <<Render(start[1])>> ELSE << >>)
           \o [k \in 1..n |-> Render(UpdateBar(start, 1, k)[1])]
           \o <<Render(FinishBar(UpdateBar(start, 1, n), 1)[1])>>

\* No batch install runs.
NoInstall ==
    /\ pcMain = "none"
    /\ force = FALSE
    /\ serverType = ""
    /\ pkg = << >>
    /\ lockFile = EmptyMap
    /\ diskLock = LockFileOf("missing", EmptyMap)
    /\ lockAtStart = diskLock
    /\ saveCount = 0
    /\ idx = 1
    /\ tasks = << >>
    /\ next = 1
    /\ out = << >>
    /\ bars = << >>
    /\ job = << >>
    /\ sem = 0
    /\ mutex = 0
    /\ wg = 0
    /\ errors = << >>
    /\ dir = DirWith({})
    /\ inode = [n \in InodeIds(0) |-> << >>]
    /\ retErr = "none"

\* One library call is looked at per run.
InitLib ==
    /\ NoInstall
    /\ call = NoCall
    /\ serve = NoServe

\* A caller evaluates ModrinthIsPluginCompatible(project, serverType).
CallModrinthIsPluginCompatible ==
    /\ pcMain = "none"
    /\ call = NoCall
    /\ \E categories \in SeqsUpTo(Categories, MaxCategories), type \in CallServerTypes :
          call' = [fn |-> "ModrinthIsPluginCompatible", categories |-> categories,
                   serverType |-> type,
                   result |-> ModrinthIsPluginCompatible(categories, type)]
    /\ UNCHANGED <<serve, pcMain, force, serverType, pkg, lockFile, diskLock, lockAtStart,
                   saveCount, idx, tasks, next, out, bars, job, sem, mutex, wg, errors,
                   dir, inode, retErr>>

\* A caller evaluates HangarIsPluginCompatible(project, serverType).
CallHangarIsPluginCompatible ==
    /\ pcMain = "none"
    /\ call = NoCall
    /\ \E platforms \in SupportedPlatformMaps, type \in CallServerTypes :
          call' = [fn |-> "HangarIsPluginCompatible", platforms |-> platforms,
                   serverType |-> type,
                   result |-> HangarIsPluginCompatible(platforms, type)]
    /\ UNCHANGED <<serve, pcMain, force, serverType, pkg, lockFile, diskLock, lockAtStart,
                   saveCount, idx, tasks, next, out, bars, job, sem, mutex, wg, errors,
                   dir, inode, retErr>>

\* A caller runs one operation of a catalog client.
CallCatalogClient ==
    /\ pcMain = "none"
    /\ call = NoCall
    /\ \E client \in {"modrinth", "hangar"}, operation \in ClientOperations,
          resp \in HTTPResponses :
          call' = [fn |-> operation, client |-> client, response |-> resp,
                   result |-> ClientCall(client, operation, resp)]
    /\ UNCHANGED <<serve, pcMain, force, serverType, pkg, lockFile, diskLock, lockAtStart,
                   saveCount, idx, tasks, next, out, bars, job, sem, mutex, wg, errors,
                   dir, inode, retErr>>

\* A download streams a body of n one-byte chunks and reports its progress,
\* to a bar of the multi-bar or to a WriteCounter.
CallDownloadProgress ==
    /\ pcMain = "none"
    /\ call = NoCall
    /\ \E size \in DeclaredLengths, n \in 0..MaxBody, withBar \in BOOLEAN :
          call' = [fn |-> "progress", size |-> size, written |-> n, withBar |-> withBar,
                   reports |-> IF withBar THEN BarReports(size, n)
                               ELSE CounterReports(size, n)]
    /\ UNCHANGED <<serve, pcMain, force, serverType, pkg, lockFile, diskLock, lockAtStart,
                   saveCount, idx, tasks, next, out, bars, job, sem, mutex, wg, errors,
                   dir, inode, retErr>>

\* install lists a Hangar project's versions:
\* hangarClient.GetProjectVersions(owner, slug, serverVersion, serverType),
\* with the configured server type as the platform argument.
CallHangarGetProjectVersions ==
    /\ pcMain = "none"
    /\ call = NoCall
    /\ \E resp \in HangarListings, gameVersion \in {"", "1.19", GameVersion},
          type \in TableTypes :
          call' = [fn |-> "HangarGetProjectVersions", response |-> resp,
                   gameVersion |-> gameVersion, serverType |-> type,
                   result |-> HangarGetProjectVersions(resp, gameVersion, type)]
    /\ UNCHANGED <<serve, pcMain, force, serverType, pkg, lockFile, diskLock, lockAtStart,
                   saveCount, idx, tasks, next, out, bars, job, sem, mutex, wg, errors,
                   dir, inode, retErr>>

NextLib ==
    \/ CallHangarGetProjectVersions
    \/ CallModrinthIsPluginCompatible
    \/ CallHangarIsPluginCompatible
    \/ CallCatalogClient
    \/ CallDownloadProgress

SpecLib == InitLib /\ [][NextLib]_vars

\* ------------------------------------------------------------------------
\* The serve command (cmd/serve.go)
\* ------------------------------------------------------------------------

MaxLines == 3
MaxCommands == 2

\* A line of the server's output is a sequence of fragments, and
\* strings.Contains(line, s) holds when s is one of them.
OutputLines == {<<"Loading libraries">>, <<"[INFO] ", "Done (", "3.2s)!">>,
                <<"Server started">>, <<"done (">>}

Contains(line, substr) == \E k \in 1..Len(line) : line[k] = substr

\* The condition of monitorServerOutput on a line, apart from sentReady.
ReadyLine(line) == Contains(line, "Done (") \/ Contains(line, "Server started")

StartupCommandPool == {"say hi", "save-all"}

\* serveServer has built the start command and calls startServerWithCommands:
\* output is what the scanner will read from the server, commands is
\* pkg.StartupCommands.
InitServe ==
    /\ NoInstall
    /\ call = NoCall
    /\ \E output \in SeqsUpTo(OutputLines, MaxLines),
          commands \in SeqsUpTo(StartupCommandPool, MaxCommands) :
          serve = [pc |-> "start", output |-> output, commands |-> commands,
                   pcMon |-> "idle", pos |-> 1, sentReady |-> FALSE, terminal |-> << >>,
                   serverReady |-> 0, sends |-> 0,
                   pcExec |-> "idle", i |-> 1, err |-> FALSE, attempts |-> << >>,
                   console |-> << >>,
                   ret |-> "none"]

\* startServerWithCommands up to serverCmd.Wait(): with startup commands the
\* two pipes are made, the server is started and the two goroutines are
\* spawned on a channel of capacity 1; without them the server runs attached
\* to the terminal.
StartServer ==
    /\ serve.pc = "start"
    /\ \E outcome \in {"failed to create stdin pipe", "failed to create stdout pipe",
                        "failed to start server", "started"} :
          IF outcome = "started"
          THEN IF Len(serve.commands) > 0
               THEN serve' = [serve EXCEPT !.pc = "running", !.pcMon = "scan",
                                           !.pcExec = "wait"]
               ELSE serve' = [serve EXCEPT !.pc = "attached"]
          ELSE /\ Len(serve.commands) > 0 \/ outcome = "failed to start server"
               /\ serve' = [serve EXCEPT !.pc = "returned", !.ret = outcome]
    /\ UNCHANGED <<call, pcMain, force, serverType, pkg, lockFile, diskLock, lockAtStart,
                   saveCount, idx, tasks, next, out, bars, job, sem, mutex, wg, errors,
                   dir, inode, retErr>>

\* A mutant of MonitorLine: the ready signal is sent for every ready line;
\* a send on the full channel blocks the monitor.
MonitorLineEveryReadyLine ==
    /\ serve.pc = "running"
    /\ serve.pcMon = "scan"
    /\ serve.pos <= Len(serve.output)
    /\ LET line == serve.output[serve.pos]
           seen == [serve EXCEPT !.terminal = Append(@, line)]
       IN  IF ReadyLine(line)
           THEN IF serve.serverReady < 1
                THEN serve' = [seen EXCEPT !.serverReady = @ + 1, !.sends = @ + 1,
                                           !.sentReady = TRUE, !.pos = @ + 1]
                ELSE serve' = [seen EXCEPT !.pcMon = "blocked"]
           ELSE serve' = [seen EXCEPT !.pos = @ + 1]
    /\ UNCHANGED <<call, pcMain, force, serverType, pkg, lockFile, diskLock, lockAtStart,
                   saveCount, idx, tasks, next, out, bars, job, sem, mutex, wg, errors,
                   dir, inode, retErr>>

\* One turn of the scan loop of monitorServerOutput: the line is printed, and
\* the first ready line sends on serverReady; a send on the full channel
\* blocks the monitor.
MonitorLine ==
    /\ serve.pc = "running"
    /\ serve.pcMon = "scan"
    /\ serve.pos <= Len(serve.output)
    /\ LET line == serve.output[serve.pos]
           seen == [serve EXCEPT !.terminal = Append(@, line)]
       IN  IF ~serve.sentReady /\ ReadyLine(line)
           THEN IF serve.serverReady < 1
                THEN serve' = [seen EXCEPT !.serverReady = @ + 1, !.sends = @ + 1,
                                           !.sentReady = TRUE, !.pos = @ + 1]
                ELSE serve' = [seen EXCEPT !.pcMon = "blocked"]
           ELSE serve' = [seen EXCEPT !.pos = @ + 1]
    /\ UNCHANGED <<call, pcMain, force, serverType, pkg, lockFile, diskLock, lockAtStart,
                   saveCount, idx, tasks, next, out, bars, job, sem, mutex, wg, errors,
                   dir, inode, retErr>>

\* The scan of monitorServerOutput ends: the signal is sent if it never was.
MonitorEnd ==
    /\ serve.pc = "running"
    /\ serve.pcMon = "scan"
    /\ serve.pos > Len(serve.output)
    /\ IF ~serve.sentReady
       THEN IF serve.serverReady < 1
            THEN serve' = [serve EXCEPT !.serverReady = @ + 1, !.sends = @ + 1,
                                        !.pcMon = "done"]
            ELSE serve' = [serve EXCEPT !.pcMon = "blocked"]
       ELSE serve' = [serve EXCEPT !.pcMon = "done"]
    /\ UNCHANGED <<call, pcMain, force, serverType, pkg, lockFile, diskLock, lockAtStart,
                   saveCount, idx, tasks, next, out, bars, job, sem, mutex, wg, errors,
                   dir, inode, retErr>>

\* executeStartupCommands receives from serverReady and makes its writer.
ExecReceive ==
    /\ serve.pc = "running"
    /\ serve.pcExec = "wait"
    /\ serve.serverReady > 0
    /\ serve' = [serve EXCEPT !.serverReady = @ - 1, !.pcExec = "write"]
    /\ UNCHANGED <<call, pcMain, force, serverType, pkg, lockFile, diskLock, lockAtStart,
                   saveCount, idx, tasks, next, out, bars, job, sem, mutex, wg, errors,
                   dir, inode, retErr>>

\* One turn of the command loop of executeStartupCommands: Fprintf into the
\* bufio.Writer, which fails once the writer holds an error, then Flush to
\* the server's console, which delivers the command or leaves the writer
\* with its error; either failure goes on to the next command.
ExecCommand ==
    /\ serve.pc = "running"
    /\ serve.pcExec = "write"
    /\ serve.i <= Len(serve.commands)
    /\ LET command == serve.commands[serve.i]
           tried == [serve EXCEPT !.attempts = Append(@, command), !.i = @ + 1]
       IN  IF serve.err
           THEN serve' = tried
           ELSE \E flushed \in BOOLEAN :
                   IF flushed
                   THEN serve' = [tried EXCEPT !.console = Append(@, command)]
                   ELSE serve' = [tried EXCEPT !.err = TRUE]
    /\ UNCHANGED <<call, pcMain, force, serverType, pkg, lockFile, diskLock, lockAtStart,
                   saveCount, idx, tasks, next, out, bars, job, sem, mutex, wg, errors,
                   dir, inode, retErr>>

\* The command loop of executeStartupCommands is over.
ExecDone ==
    /\ serve.pc = "running"
    /\ serve.pcExec = "write"
    /\ serve.i > Len(serve.commands)
    /\ serve' = [serve EXCEPT !.pcExec = "done"]
    /\ UNCHANGED <<call, pcMain, force, serverType, pkg, lockFile, diskLock, lockAtStart,
                   saveCount, idx, tasks, next, out, bars, job, sem, mutex, wg, errors,
                   dir, inode, retErr>>

\* serverCmd.Wait() returns, with or without an error, and the command
\* returns with it: the goroutines run no further.
ServerExit ==
    /\ serve.pc \in {"running", "attached"}
    /\ \E outcome \in {"nil", "exit status"} :
          serve' = [serve EXCEPT !.pc = "returned", !.ret = outcome]
    /\ UNCHANGED <<call, pcMain, force, serverType, pkg, lockFile, diskLock, lockAtStart,
                   saveCount, idx, tasks, next, out, bars, job, sem, mutex, wg, errors,
                   dir, inode, retErr>>

NextServe ==
    \/ StartServer
    \/ MonitorLine
    \/ MonitorEnd
    \/ ExecReceive
    \/ ExecCommand
    \/ ExecDone
    \/ ServerExit

SpecServe == InitServe /\ [][NextServe]_vars

\* ------------------------------------------------------------------------
\* runInstall and the install of named plugins (installSpecificPlugins)
\* ------------------------------------------------------------------------

MaxArgs == 2

\* A search hit (pluginSearchResult) and the sorted result lists a query
\* may give; a Hangar id is built as owner/slug.
SearchResult(name, id, source, distance) ==
    [name |-> name, id |-> id, source |-> source, distance |-> distance]

ResultLists ==
    LET mod(d) == SearchResult("ModA", <<"m", "a">>, "modrinth", d)
        han(d) == SearchResult("HanA", <<"o", "/", "s">>, "hangar", d)
    IN  {<< >>, <<mod(0)>>, <<han(0), mod(1)>>, <<mod(1), han(2)>>}

\* The answer typed at a prompt: 0 is anything that is not a number.
Choices == 0..2

\* The hit installSpecificPlugins installs: results[0] at distance 0, else
\* the one picked among the first six; << >> when there is none.
SelectResult(results, choice) ==
    LET shown == SubSeq(results, 1, IF Len(results) > 6 THEN 6 ELSE Len(results))
    IN  IF Len(results) = 0 THEN << >>
        ELSE IF results[1].distance = 0 THEN <<results[1]>>
        ELSE IF choice >= 1 /\ choice <= Len(shown) THEN <<shown[choice]>>
        ELSE << >>

\* What GetProject of the Modrinth client may answer.
ModrinthProjects == {[err |-> TRUE, Title |-> ""], [err |-> FALSE, Title |-> "ModA"]}

\* project.Name of the Hangar project.
HangarProjectName == "HanA"

\* What downloadFileModrinth / downloadFileHangar may return.
DownloadReturns == {"nil", "download failed", "checksum mismatch"}

\* promptAlternativeVersionSelection / promptAlternativeHangarVersionSelection:
\* at most three options per platform, << >> for nil.
PromptSelection(alternatives, choice) ==
    LET options == SubSeq(alternatives, 1,
                          IF Len(alternatives) > 3 THEN 3 ELSE Len(alternatives))
    IN  IF choice >= 1 /\ choice <= Len(options) THEN <<options[choice]>> ELSE << >>

\* "Check if exists and update", else append.
Upsert(plugins, newPlugin, field) ==
    LET k == FirstIndex([m \in 1..Len(plugins) |-> plugins[m][field] = newPlugin[field]])
    IN  IF k # 0 THEN [plugins EXCEPT ![k] = newPlugin] ELSE Append(plugins, newPlugin)

Installed(err, plugins, lock) == [err |-> err, Plugins |-> plugins, lock |-> lock]

\* A mutant of installFromModrinth: the plugin is added to the list before
\* the download.
InstallFromModrinthAddFirst(pluginID, project, resp, allResp, choice, download, serverVersion, type, plugins, lock) ==
    LET alts == findAlternativeModrinthVersions(allResp, serverVersion, type)
        picked == PromptSelection(alts, choice)
        versions == IF Len(resp.versions) = 0 THEN <<picked[1].version>> ELSE resp.versions
        latestVersion == versions[1]
        fi == SelectFileIndex(latestVersion.Files)
        hash == HashesGet(latestVersion.Files[fi].Hashes, "sha512")
        newPlugin == Plugin(project.Title, latestVersion.VersionNumber, pluginID, << >>)
        added == Upsert(plugins, newPlugin, "ModrinthID")
    IN  IF project.err THEN Installed("error getting project", plugins, lock)
        ELSE IF resp.err THEN Installed("error getting versions", plugins, lock)
        ELSE IF Len(resp.versions) = 0 /\ Len(alts) = 0
        THEN Installed("no versions found for any platform", plugins, lock)
        ELSE IF Len(resp.versions) = 0 /\ picked = << >>
        THEN Installed("installation cancelled by user", plugins, lock)
        ELSE IF fi = 0 THEN Installed("no downloadable file found", plugins, lock)
        ELSE IF download # "nil" THEN Installed("error downloading", added, lock)
        ELSE Installed("nil", added,
                       MapSet(lock, pluginID,
                              PluginLock(newPlugin.Name, latestVersion.VersionNumber, hash)))

\* installFromModrinth, given the catalog's answers, the answer typed at
\* the prompt and what the download returns: the error returned ("nil" for
\* none), pkg.Plugins and lockFile.Plugins when it returns.
InstallFromModrinth(pluginID, project, resp, allResp, choice, download, serverVersion, type, plugins, lock) ==
    LET alts == findAlternativeModrinthVersions(allResp, serverVersion, type)
        picked == PromptSelection(alts, choice)
        versions == IF Len(resp.versions) = 0 THEN <<picked[1].version>> ELSE resp.versions
        latestVersion == versions[1]
        fi == SelectFileIndex(latestVersion.Files)
        hash == HashesGet(latestVersion.Files[fi].Hashes, "sha512")
        newPlugin == Plugin(project.Title, latestVersion.VersionNumber, pluginID, << >>)
    IN  IF project.err THEN Installed("error getting project", plugins, lock)
        ELSE IF resp.err THEN Installed("error getting versions", plugins, lock)
        ELSE IF Len(resp.versions) = 0 /\ Len(alts) = 0
        THEN Installed("no versions found for any platform", plugins, lock)
        ELSE IF Len(resp.versions) = 0 /\ picked = << >>
        THEN Installed("installation cancelled by user", plugins, lock)
        ELSE IF fi = 0 THEN Installed("no downloadable file found", plugins, lock)
        ELSE IF download # "nil" THEN Installed("error downloading", plugins, lock)
        ELSE Installed("nil", Upsert(plugins, newPlugin, "ModrinthID"),
                       MapSet(lock, pluginID,
                              PluginLock(newPlugin.Name, latestVersion.VersionNumber, hash)))

\* installFromHangar, in the same terms; alts is what
\* findAlternativeHangarVersions returned.
InstallFromHangar(pluginID, proj, resp, alts, choice, download, serverVersion, type, plugins, lock) ==
    LET parts == SplitN2(pluginID)
        first == HangarGetProjectVersions(resp, serverVersion, type)
        empty == Len(first.versions) = 0
        picked == PromptSelection(alts, choice)
        versions == IF empty THEN <<picked[1].version>> ELSE first.versions
        effType == IF empty THEN picked[1].platform ELSE type
        latestVersion == versions[1]
        dl == GetDownloadURL(latestVersion, effType)
        newPlugin == Plugin(HangarProjectName, latestVersion.Name, << >>, pluginID)
    IN  IF Len(parts) # 2 THEN Installed("invalid Hangar ID format", plugins, lock)
        ELSE IF proj.err THEN Installed("error getting project", plugins, lock)
        ELSE IF first.err THEN Installed("error getting versions", plugins, lock)
        ELSE IF empty /\ Len(alts) = 0
        THEN Installed("no versions found for any platform", plugins, lock)
        ELSE IF empty /\ picked = << >>
        THEN Installed("installation cancelled by user", plugins, lock)
        ELSE IF dl.err THEN Installed("error getting download URL", plugins, lock)
        ELSE IF download # "nil" THEN Installed("error downloading", plugins, lock)
        ELSE Installed("nil", Upsert(plugins, newPlugin, "HangarID"),
                       MapSet(lock, pluginID,
                              PluginLock(newPlugin.Name, latestVersion.Name, dl.hash)))

\* The plugin lists of the package.yml files considered.
DeclaredLists == {<< >>, <<PModLatest>>, <<PHangar, PModPinned>>}

\* What runInstall has at hand: its arguments, whether package.yml can be
\* loaded and the plugins it declares, and the last plugin attempted.
Run(args, loadable, packageYml, last) ==
    [fn |-> "runInstall", args |-> args, loadable |-> loadable,
     packageYml |-> packageYml, last |-> last]

NoAttempt == [query |-> "", source |-> "", err |-> ""]

Attempt(query, source, err) == [query |-> query, source |-> source, err |-> err]

\* The install command is entered: the plugins directory, package.yml and
\* package-lock.yml are as found, serverType is pkg.Server.Type of the file.
InitRun ==
    /\ pcMain = "run"
    /\ \E args \in SeqsUpTo({"moda", "hana"}, MaxArgs), loadable \in BOOLEAN,
          declared \in DeclaredLists :
          call = Run(args, loadable, declared, NoAttempt)
    /\ diskLock \in {LockFileOf("missing", EmptyMap), LockFileOf("ok", StaleLock),
                      LockFileOf("corrupt", EmptyMap)}
    /\ serverType \in ServerTypes
    /\ force = FALSE
    /\ pkg = << >>
    /\ lockFile = EmptyMap
    /\ lockAtStart = diskLock
    /\ saveCount = 0
    /\ idx = 1
    /\ tasks = << >>
    /\ next = 1
    /\ out = << >>
    /\ bars = << >>
    /\ job = << >>
    /\ sem = 0
    /\ mutex = 0
    /\ wg = 0
    /\ errors = << >>
    /\ dir = DirWith({})
    /\ inode = [n \in InodeIds(0) |-> << >>]
    /\ retErr = "running"
    /\ serve = NoServe

\* runInstall: MkdirAll, then with arguments the load whose error is
\* ignored and the call of installSpecificPlugins; without arguments the
\* load, the server jar check when it succeeded, and the call of
\* installFromPackage with pkg.Server.Type, a nil dereference when pkg is nil.
RunInstall ==
    /\ pcMain = "run"
    /\ \/ /\ pcMain' = "done"
          /\ retErr' = "could not create directory"
          /\ UNCHANGED <<serverType, out>>
       \/ /\ Len(call.args) > 0
          /\ pcMain' = "specific"
          /\ serverType' = IF call.loadable THEN serverType ELSE ""
          /\ UNCHANGED <<retErr, out>>
       \/ /\ Len(call.args) = 0
          /\ call.loadable
          /\ pcMain' = "installFromPackage"
          /\ \E server \in {"already exists", "could not get downloader",
                              "error downloading server", "server ready"} :
                out' = out \o <<Msg("info", "verifying server", serverType, GameVersion),
                                 Msg("info", server, "server.jar", "")>>
          /\ UNCHANGED <<retErr, serverType>>
       \/ /\ Len(call.args) = 0
          /\ ~call.loadable
          /\ pcMain' = "panic"
          /\ UNCHANGED <<retErr, serverType, out>>
    /\ UNCHANGED <<serve, call, force, pkg, lockFile, diskLock, lockAtStart, saveCount, idx,
                   tasks, next, bars, job, sem, mutex, wg, errors, dir, inode>>

\* installSpecificPlugins up to its loop: both files are loaded.
LoadSpecific ==
    /\ pcMain = "specific"
    /\ LET r == LoadPackageLockFromFile(diskLock)
       IN  IF ~call.loadable
           THEN /\ pcMain' = "done"
                /\ retErr' = "package.yml not found, run 'mpm init' first"
                /\ UNCHANGED <<pkg, lockFile, serverType>>
           ELSE IF r.err
           THEN /\ pcMain' = "done"
                /\ retErr' = "error loading package-lock.yml"
                /\ UNCHANGED <<pkg, lockFile, serverType>>
           ELSE /\ pcMain' = "query"
                /\ pkg' = call.packageYml
                /\ lockFile' = r.Plugins
                /\ serverType' = StrLower(serverType)
                /\ retErr' = retErr
    /\ UNCHANGED <<serve, call, force, diskLock, lockAtStart, saveCount, idx, tasks, next,
                   out, bars, job, sem, mutex, wg, errors, dir, inode>>

\* One turn of the loop of installSpecificPlugins: both searches, the
\* choice of a hit, and installFromHangar or installFromModrinth on it.
InstallQuery ==
    /\ pcMain = "query"
    /\ idx <= Len(call.args)
    /\ \E results \in ResultLists, choice \in Choices, download \in DownloadReturns :
          LET query == call.args[idx]
              selected == SelectResult(results, choice)
              done(r, source) ==
                  /\ pkg' = r.Plugins
                  /\ lockFile' = r.lock
                  /\ call' = [call EXCEPT !.last = Attempt(query, source, r.err)]
                  /\ out' = Append(out, IF r.err = "nil"
                                         THEN Msg("success", "installed", query, source)
                                         ELSE Msg("error", "failed to install", query, r.err))
          IN  IF selected = << >>
              THEN /\ out' = Append(out, IF Len(results) = 0
                                         THEN Msg("warning", "no results", query, "")
                                         ELSE Msg("info", "cancelled", query, ""))
                   /\ call' = [call EXCEPT !.last = Attempt(query, "", "not selected")]
                   /\ UNCHANGED <<pkg, lockFile>>
              ELSE IF selected[1].source = "hangar"
              THEN \E proj \in HangarProjects, resp \in HangarListings, pick \in Choices :
                      \E alts \in findAlternativeHangarVersions(
                                      resp, GameVersion, serverType,
                                      proj.SupportedPlatforms) :
                         done(InstallFromHangar(selected[1].id, proj, resp, alts, pick,
                                                download, GameVersion, serverType,
                                                pkg, lockFile), "hangar")
              ELSE \E project \in ModrinthProjects, resp \in ModrinthListings,
                      allResp \in ModrinthAllListings, pick \in Choices :
                      done(InstallFromModrinth(selected[1].id, project, resp, allResp, pick,
                                               download, GameVersion, serverType,
                                               pkg, lockFile), "modrinth")
    /\ idx' = idx + 1
    /\ UNCHANGED <<serve, pcMain, force, serverType, diskLock, lockAtStart, saveCount, tasks,
                   next, bars, job, sem, mutex, wg, errors, dir, inode, retErr>>

\* The end of installSpecificPlugins: package.yml is saved, then
\* package-lock.yml.
SaveSpecific ==
    /\ pcMain = "query"
    /\ idx > Len(call.args)
    /\ pcMain' = "done"
    /\ \/ /\ retErr' = "error saving package.yml"
          /\ UNCHANGED <<call, diskLock, saveCount>>
       \/ /\ retErr' = "error saving package-lock.yml"
          /\ call' = [call EXCEPT !.packageYml = pkg]
          /\ saveCount' = saveCount + 1
          /\ UNCHANGED diskLock
       \/ /\ retErr' = "nil"
          /\ call' = [call EXCEPT !.packageYml = pkg]
          /\ diskLock' = LockFileOf("ok", lockFile)
          /\ saveCount' = saveCount + 1
    /\ UNCHANGED <<serve, force, serverType, pkg, lockFile, lockAtStart, idx, tasks, next,
                   out, bars, job, sem, mutex, wg, errors, dir, inode>>

NextRun ==
    \/ RunInstall
    \/ LoadSpecific
    \/ InstallQuery
    \/ SaveSpecific

SpecRun == InitRun /\ [][NextRun]_vars

\* ------------------------------------------------------------------------
\* Sanity of the state
\* ------------------------------------------------------------------------

TypeOK ==
    /\ sem \in 0..SemaphoreCap
    /\ wg \in 0..Len(tasks)
    /\ mutex \in 0..Len(tasks)

\* ------------------------------------------------------------------------
\* Properties
\* ------------------------------------------------------------------------

\* The job is between "semaphore <- struct{}{}" and "<-semaphore".
InFlight(j) == job[j].pc \notin {"idle", "spawned", "done"}

\* C1: whatever the number of tasks and the interleaving, at most 5 jobs are
\* at the same time between acquiring and releasing the semaphore.
C1_AtMostFiveInFlight == Cardinality({j \in Jobs : InFlight(j)}) <= 5

\* Five jobs hold the semaphore while a sixth, already spawned, waits.
C1_Witness ==
    /\ Cardinality({j \in Jobs : InFlight(j)}) = 5
    /\ \E j \in Jobs : job[j].pc = "spawned"

\* The job's download returned nil and its entry has been stored.
Recorded(j) == job[j].pc \in {"unlock", "exit", "done"} /\ job[j].err = Nil

\* The mapping holds, under the job's key, the entry of a job with that key
\* whose download succeeded.
HoldsEntryFor(plugins, j) ==
    /\ LockKeyOf(j) \in DOMAIN plugins
    /\ \E k \in Jobs : /\ LockKeyOf(k) = LockKeyOf(j)
                       /\ Recorded(k)
                       /\ plugins[LockKeyOf(j)] = LockEntryOf(k)

\* What installFromPackage returns when one of its two files does not load.
LoadErrors == {"could not read package.yml", "error loading package-lock.yml"}

\* installFromPackage is past wg.Wait().
Joined == pcMain = "save" \/ (pcMain = "done" /\ retErr \notin LoadErrors)

\* C2: when the run is past the join, every job whose download returned nil
\* has its entry in the lock mapping handed to SaveToFile, and in
\* package-lock.yml once the save succeeded, whether or not other plugins
\* failed to resolve or other jobs failed to download.
C2_FailureIsolated ==
    Joined =>
       \A j \in Jobs :
          job[j].err = Nil =>
             /\ HoldsEntryFor(lockFile, j)
             /\ (retErr = "nil" => diskLock.state = "ok" /\ HoldsEntryFor(diskLock.Plugins, j))

\* One job failed on its checksum, and the entry of another job is in the
\* saved file, which did not exist before the run.
C2_Witness ==
    /\ pcMain = "done"
    /\ retErr = "nil"
    /\ \E j, k \in Jobs :
          /\ job[j].err.kind = "checksum mismatch"
          /\ job[k].err = Nil
          /\ HoldsEntryFor(diskLock.Plugins, k)
          /\ lockAtStart.state = "missing"

\* The job is inside the section between mutex.Lock() and mutex.Unlock().
InSection(j) == job[j].pc \in {"locked", "update", "unlock"}

\* C3: a step of the download phase that changes the error list or the lock
\* mapping is taken by a job that holds the mutex, no other job is inside
\* the section, and the step applies the job's update to the current value
\* of the list or mapping, so that no earlier update is dropped.
C3_UpdatesUnderMutex ==
    [][(Alive /\ (errors' # errors \/ lockFile' # lockFile)) =>
          \E j \in Jobs :
             /\ mutex = j
             /\ job[j].pc = "update"
             /\ \A k \in Jobs \ {j} : ~InSection(k)
             /\ \/ /\ job[j].err # Nil
                   /\ errors' = Append(errors, DownloadError(j))
                   /\ lockFile' = lockFile
                \/ /\ job[j].err = Nil
                   /\ lockFile' = MapSet(lockFile, LockKeyOf(j), LockEntryOf(j))
                   /\ errors' = errors]_vars

\* A job is about to store its entry while another one, whose download has
\* failed, waits for the mutex to append its error.
C3_Witness ==
    \E j, k \in Jobs :
       /\ j # k
       /\ job[j].pc = "update"
       /\ job[j].err = Nil
       /\ mutex = j
       /\ job[k].pc = "returned"
       /\ job[k].err # Nil

\* C4: SaveToFile is called at most once, and only when every job has
\* finished; a run that loaded its two files and came to its end has called
\* it exactly once; as long as it has not been called, package-lock.yml is
\* what it was when the run started.
C4_SingleSaveAfterJoin ==
    /\ saveCount <= 1
    /\ saveCount = 0 => diskLock = lockAtStart
    /\ saveCount = 1 => /\ pcMain = "done"
                        /\ wg = 0
                        /\ \A j \in Jobs : job[j].pc = "done"
    /\ (pcMain = "done" /\ retErr \notin LoadErrors) => saveCount = 1

\* Two jobs have stored their entries, a third is still downloading, and
\* package-lock.yml is still the file of the earlier run.
C4_Witness ==
    /\ saveCount = 0
    /\ diskLock = LockFileOf("ok", StaleLock)
    /\ lockFile # StaleLock
    /\ \E j, k \in Jobs : Recorded(j) /\ job[k].pc \in {"stream", "publish"}

\* The bytes at a final path.
BytesAt(name) == inode[dir[name]]

\* C5: when the run has returned nil, every job whose download returned nil
\* has an entry under its plugin's identifier in package-lock.yml, a file
\* is at its destination, and the entry's hash is the digest of that file's
\* bytes.
C5_LockHashIsFileDigest ==
    (pcMain = "done" /\ retErr = "nil") =>
       \A j \in Jobs :
          job[j].err = Nil =>
             /\ LockKeyOf(j) \in DOMAIN diskLock.Plugins
             /\ dir[DestOf(j)] # 0
             /\ EqualFold(diskLock.Plugins[LockKeyOf(j)].Hash,
                          Digest(AlgOf(j), BytesAt(DestOf(j))))

\* The job is at the top of downloadFile*, the file is there, force is off.
AtExistingFile(j) == job[j].pc = "download" /\ ~force /\ dir[DestOf(j)] # 0

StreamedToEnd(j) ==
    \/ job[j].pc = "stream" /\ job[j].written = Len(Payload)
    \/ job[j].pc \in {"publish", "copy"}

\* The digest of the streamed bytes is the expected one, letter case aside.
DigestMatches(j) == EqualFold(Digest(AlgOf(j), inode[job[j].tmp]), tasks[j].hash)

\* The check passes: there is nothing to compare with, or the digests agree.
CheckPasses(j) == tasks[j].hash = << >> \/ DigestMatches(j)

\* What the publishing step can fail with.
PublishErrors == {"open failed", "create failed", "copy failed"}

\* C7 as stated: a call that streamed the body to its end returns nil
\* exactly when there is no expected digest or the digests agree.
C7_SucceedsIffDigestMatches ==
    [][\A j \in Jobs :
          (StreamedToEnd(j) /\ job'[j].pc = "returned") =>
             (job'[j].err = Nil <=> CheckPasses(j))]_vars

\* C7, amended: a call that streamed the body to its end returns a checksum
\* error exactly when an expected digest was supplied and differs from the
\* computed one, letter case aside; it returns nil only when the check
\* passes; and when the check passes it goes on to publish the file, which
\* ends with nil or with the error of the rename fallback.
C7_ChecksumErrorIffMismatch ==
    [][\A j \in Jobs :
          /\ (StreamedToEnd(j) /\ job'[j].pc = "returned") =>
                /\ job'[j].err.kind = "checksum mismatch" <=> ~CheckPasses(j)
                /\ job'[j].err = Nil => CheckPasses(j)
                /\ (CheckPasses(j) /\ job'[j].err # Nil) =>
                      /\ job[j].pc \in {"publish", "copy"}
                      /\ job'[j].err.kind \in PublishErrors
          /\ (job[j].pc = "stream" /\ StreamedToEnd(j) /\ CheckPasses(j)
                /\ job'[j] # job[j]) => job'[j].pc = "publish"]_vars

\* A file whose catalog digest is in upper case has been streamed, verified
\* and renamed into place.
C7_Witness ==
    \E j \in Jobs :
       /\ tasks[j].hash = ToUpper(Digest("sha512", Payload))
       /\ tasks[j].hash # Digest("sha512", Payload)
       /\ job[j].pc = "returned"
       /\ job[j].err = Nil
       /\ dir[DestOf(j)] = TmpInode(j)
       /\ BytesAt(DestOf(j)) = Payload

\* C8: while a download call is before its checksum check it changes neither
\* the directory entry of its final path nor the bytes of the file there;
\* and when the digests differ, the call returns the checksum error with
\* the filename, the expected and the computed digest, and its temp file
\* is gone.
C8_MismatchLeavesNoTrace ==
    [][\A j \in Jobs :
          /\ (job[j].pc \in {"download", "stream"} /\ job'[j] # job[j]) =>
                /\ dir' = dir
                /\ dir[DestOf(j)] # 0 => inode'[dir[DestOf(j)]] = BytesAt(DestOf(j))
          /\ (job[j].pc = "stream" /\ StreamedToEnd(j) /\ ~CheckPasses(j)
                /\ job'[j] # job[j]) =>
                /\ job'[j].pc = "returned"
                /\ job'[j].err = ChecksumErr(tasks[j].filename, tasks[j].hash,
                                             Digest(AlgOf(j), inode[job[j].tmp]))
                /\ job'[j].tmp = 0
                /\ inode'[TmpInode(j)] = << >>]_vars

\* With force on, a download over an existing file has failed its check:
\* the file has its old bytes and no temp file is left.
C8_Witness ==
    \E j \in Jobs :
       /\ force
       /\ job[j].pc = "returned"
       /\ job[j].err = ChecksumErr(DestOf(j), WrongHex, Digest("sha512", Payload))
       /\ dir[DestOf(j)] = OldInode(DestOf(j))
       /\ BytesAt(DestOf(j)) = OldContent
       /\ inode[TmpInode(j)] = << >>

\* C9: a final path that no download call has open for writing is absent, or
\* holds the complete downloaded content, or holds the complete content it
\* had before the run.
C9_DestinationNeverPartial ==
    \A name \in NameSet :
       (dir[name] # 0 /\ \A j \in Jobs : job[j].dst # dir[name]) =>
          BytesAt(name) \in {Payload, OldContent}

\* C10: installFromPackage returns only nil or one of three errors: the two
\* load errors, returned before any plugin is looked at, and the save
\* error, returned by the one SaveToFile call; a run that got past loading
\* ends only after every plugin was looked at, every job ran to its end and
\* the save was attempted.
C10_OnlyLoadOrSaveErrors ==
    /\ retErr = "running" <=> pcMain # "done"
    /\ retErr \in {"running", "nil", "error saving package-lock.yml"} \cup LoadErrors
    /\ retErr = "could not read package.yml" =>
          pkg = << >> /\ idx = 1 /\ tasks = << >> /\ saveCount = 0
    /\ retErr = "error loading package-lock.yml" =>
          /\ LoadPackageLockFromFile(lockAtStart).err
          /\ idx = 1 /\ tasks = << >> /\ saveCount = 0
    /\ retErr \in {"nil", "error saving package-lock.yml"} =>
          /\ idx = Len(pkg) + 1
          /\ Len(job) = Len(tasks)
          /\ \A j \in Jobs : job[j].pc = "done"
          /\ saveCount = 1

\* One plugin did not resolve and the download of another failed; the run
\* saved the lock file and returned nil.
C10_Witness ==
    /\ pcMain = "done"
    /\ retErr = "nil"
    /\ saveCount = 1
    /\ Len(tasks) < Len(pkg)
    /\ Len(errors) > 0

\* The plugin declared at position i of package.yml names a catalog.
HasSource(i) == pkg[i].ModrinthID # << >> \/ pkg[i].HangarID # << >>

\* C11: once the run is past the join, every plugin of package.yml that
\* names a catalog either has a job whose entry is in the lock mapping or
\* is named by an element of the error list that is reported at the end.
C11_EveryPluginAccounted ==
    Joined =>
       \A i \in 1..Len(pkg) :
          HasSource(i) =>
             \/ \E j \in Jobs : /\ tasks[j].index = i
                                /\ job[j].err = Nil
                                /\ HoldsEntryFor(lockFile, j)
             \/ \E k \in 1..Len(errors) : errors[k].name = pkg[i].Name

\* C12: once the end-of-run messages are printed, an "Installed" line is in
\* the output only for a download that returned nil: a failed job's line is
\* there only when a job with the same plugin name and version succeeded.
C12_InstalledOnlyOnSuccess ==
    Joined =>
       \A j \in Jobs :
          (job[j].err # Nil /\ \E k \in 1..Len(out) : out[k] = InstalledMessages[j]) =>
             \E i \in Jobs : job[i].err = Nil /\ InstalledMessages[i] = InstalledMessages[j]

\* The fallback keys the compatibility table lists for a server type.
FallbackKeys(type) ==
    CASE type = "paper" -> {"spigot", "bukkit"}
      [] type = "purpur" -> {"paper", "spigot", "bukkit"}
      [] type = "spigot" -> {"bukkit"}
      [] OTHER -> {}

\* The verdict of the table lookup: exact key present, else a fallback key
\* present, else not usable.
TableVerdict(categories, exact, fallback) ==
    IF \E c \in 1..Len(categories) : categories[c] \in exact THEN Verdict(TRUE, TRUE)
    ELSE IF \E c \in 1..Len(categories) : categories[c] \in fallback THEN Verdict(TRUE, FALSE)
    ELSE Verdict(FALSE, FALSE)

\* The categories ModrinthIsPluginCompatible takes as exact for a server type.
ExactKeys(type) == IF type = "waterfall" THEN {"waterfall", "bungeecord"} ELSE {type}

ModrinthTableCall == call.fn = "ModrinthIsPluginCompatible" /\ call.serverType \in TableTypes

\* C13 as stated, with one exact key per server type (its own name): for
\* every server type of the table and every category list,
\* ModrinthIsPluginCompatible returns (true, true) when the exact key is
\* among the categories, (true, false) when only a fallback key is, and
\* (false, false) otherwise.
C13_OneExactKeyPerType ==
    ModrinthTableCall =>
       call.result = TableVerdict(call.categories, {call.serverType},
                                  FallbackKeys(call.serverType))

\* C13, amended: the same lookup, where waterfall has two exact keys
\* ("waterfall" and "bungeecord") and every other server type has its own
\* name as exact key; the order of the categories does not matter.
C13_TableLookup ==
    ModrinthTableCall =>
       call.result = TableVerdict(call.categories, ExactKeys(call.serverType),
                                  FallbackKeys(call.serverType))

\* A purpur lookup decided by a fallback key that follows an unrelated one.
C13_Witness ==
    /\ call.fn = "ModrinthIsPluginCompatible"
    /\ call.serverType = "purpur"
    /\ call.categories = <<"velocity", "paper">>
    /\ call.result = Verdict(TRUE, FALSE)

\* The server types HangarIsPluginCompatible has a platform for.
HangarTableTypes == {"paper", "purpur", "folia", "spigot", "bukkit", "velocity", "waterfall"}

\* C14: for a server type that is empty or in no compatibility table, both
\* ModrinthIsPluginCompatible and HangarIsPluginCompatible return
\* (true, true), whatever the project's categories or supported platforms.
C14_NoConstraintWithoutTableRow ==
    /\ (call.fn = "ModrinthIsPluginCompatible" /\ call.serverType \notin TableTypes)
          => call.result = Verdict(TRUE, TRUE)
    /\ (call.fn = "HangarIsPluginCompatible" /\ call.serverType \notin HangarTableTypes)
          => call.result = Verdict(TRUE, TRUE)

\* The label of a candidate version of a source.
LabelOf(source, v) == IF source = "modrinth" THEN v.VersionNumber ELSE v.Name

\* The tasks appended for the plugin at a position of package.yml.
TasksOf(i) == {j \in 1..Len(tasks) : tasks[j].index = i}

\* The metadata loop has the client's non-empty candidate list at hand.
CandidatesAtHand == call.fn = "GetProjectVersions" /\ ~call.err /\ Len(call.versions) > 0

\* C15: for a plugin whose version constraint is "latest" or empty, the
\* version selected is the first element of the candidate list as the
\* catalog client returned it: a task for the plugin carries that label, and
\* without a task the plugin was stopped for lack of a downloadable file.
C15_LatestIsFirstReturned ==
    (CandidatesAtHand /\ pkg[call.index].Version \in {"", "latest"}) =>
       /\ \A j \in TasksOf(call.index) :
             tasks[j].version = LabelOf(call.source, call.versions[1])
       /\ \/ TasksOf(call.index) # {}
          \/ out[Len(out)].what = "no downloadable files"

\* The client returned [1.0, 3.0] and the task is for 1.0.
C15_Witness ==
    /\ CandidatesAtHand
    /\ pkg[call.index].Version = "latest"
    /\ call.versions = <<MV1, MV3>>
    /\ \E j \in TasksOf(call.index) : tasks[j].version = MV1.VersionNumber

\* The candidates the selection runs over: the client's list, or the first
\* alternative when that list was empty.
Candidates ==
    IF Len(call.versions) > 0 THEN call.versions
    ELSE IF Len(call.alternatives) > 0 THEN <<call.alternatives[1].version>>
    ELSE << >>

\* The metadata loop is selecting a version for a plugin that pins a label.
PinnedAtHand ==
    /\ call.fn = "GetProjectVersions"
    /\ ~call.err
    /\ Len(Candidates) > 0
    /\ pkg[call.index].Version \notin {"", "latest"}

\* The positions of the candidates whose label is the pinned one.
PinnedMatches ==
    {k \in 1..Len(Candidates) : LabelOf(call.source, Candidates[k]) = pkg[call.index].Version}

\* The download of a task is the one of a candidate version.
TaskIsFrom(j, v) ==
    /\ tasks[j].version = LabelOf(call.source, v)
    /\ call.source = "modrinth" => \E f \in 1..Len(v.Files) : tasks[j].url = v.Files[f].URL

\* C16: for a plugin that pins a version label, a task for it is for the
\* first candidate carrying exactly that label; when no candidate carries it
\* the plugin is reported as version not found, gets no task, and the loop
\* goes on to the next plugin; once the run is past the join, every task of
\* the other plugins has been run to its end.
C16_PinnedLabelExactOrNotFound ==
    /\ PinnedAtHand =>
          IF PinnedMatches # {}
          THEN \A j \in TasksOf(call.index) :
                  \E k \in PinnedMatches :
                     /\ \A m \in PinnedMatches : k <= m
                     /\ TaskIsFrom(j, Candidates[k])
          ELSE /\ TasksOf(call.index) = {}
               /\ out[Len(out)] = Msg("error", "version not found", pkg[call.index].Name,
                                      pkg[call.index].Version)
               /\ pcMain = "resolve"
               /\ idx = call.index + 1
    /\ ((\E k \in 1..Len(out) : out[k].what = "version not found") /\ Joined) =>
          \A j \in Jobs : job[j].pc = "done"

\* The first plugin's pinned label was not found, and the second plugin's
\* download succeeded and is recorded.
C16_Witness ==
    /\ Joined
    /\ \E k \in 1..Len(out) : out[k].what = "version not found" /\ out[k].name = pkg[1].Name
    /\ \E j \in Jobs : tasks[j].index = 2 /\ job[j].err = Nil /\ HoldsEntryFor(lockFile, j)

\* The iteration at hand printed a message about something.
Printed(what) == \E k \in 1..Len(call.printed) : call.printed[k].what = what

\* The alternative-platform search ran for the plugin at hand and found
\* something.
AlternativesAtHand ==
    call.fn = "GetProjectVersions" /\ call.searched /\ Len(call.alternatives) > 0

\* C17: while the metadata loop holds a plugin's answer, the plugin is
\* reported as having no version on any platform exactly when the
\* alternative-platform search ran for it and returned nothing; when the
\* search returned candidates, the platform of the first of them is
\* announced (in upper case), and the plugin's task, if it has one, is for
\* that candidate's version; it has none only when the pinned label or a
\* downloadable file is missing.
C17_NoVersionOnlyAfterSearch ==
    call.fn = "GetProjectVersions" =>
       /\ Printed("no versions on any platform")
             <=> (call.searched /\ Len(call.alternatives) = 0)
       /\ AlternativesAtHand =>
             /\ \E k \in 1..Len(call.printed) :
                   call.printed[k] = Msg("info", "using alternative", pkg[call.index].Name,
                                         StrUpper(call.alternatives[1].platform))
             /\ \A j \in TasksOf(call.index) : TaskIsFrom(j, call.alternatives[1].version)
             /\ \/ TasksOf(call.index) # {}
                \/ Printed("version not found")
                \/ Printed("no downloadable files")

\* The search found two versions on another platform, and the task is for
\* the first.
C17_Witness ==
    /\ AlternativesAtHand
    /\ Len(call.alternatives) > 1
    /\ call.alternatives[1].version # call.alternatives[2].version
    /\ \E j \in TasksOf(call.index) : TaskIsFrom(j, call.alternatives[1].version)

\* The position among the candidates of the version the plugin at hand asks
\* for: the first with the pinned label, the first of all without a pin,
\* 0 when the pinned label is missing.
AskedPosition ==
    IF pkg[call.index].Version \in {"", "latest"} THEN 1
    ELSE IF PinnedMatches = {} THEN 0
    ELSE CHOOSE k \in PinnedMatches : \A m \in PinnedMatches : k <= m

\* The metadata loop has selected a Modrinth version for the plugin at hand.
ModrinthVersionAtHand ==
    /\ call.fn = "GetProjectVersions"
    /\ call.source = "modrinth"
    /\ ~call.err
    /\ Len(Candidates) > 0
    /\ AskedPosition # 0

\* The files of a list that are marked primary, else all of them.
Preferred(files) ==
    IF \E k \in 1..Len(files) : files[k].Primary
    THEN {k \in 1..Len(files) : files[k].Primary}
    ELSE 1..Len(files)

\* C18: for the selected Modrinth version the task's URL, filename and
\* digest are those of one file: the first file marked primary, or the first
\* file when none is marked; a version without files gives the
\* missing-file error and no task.  The lock entry a finished run holds for
\* a successful Modrinth job carries the version and digest of one task.
C18_OneFileForDownloadAndLock ==
    /\ ModrinthVersionAtHand =>
          LET files == Candidates[AskedPosition].Files
          IN  IF Len(files) = 0
              THEN TasksOf(call.index) = {} /\ Printed("no downloadable files")
              ELSE /\ TasksOf(call.index) # {}
                   /\ \A j \in TasksOf(call.index) :
                         \E k \in Preferred(files) :
                            /\ \A m \in Preferred(files) : k <= m
                            /\ tasks[j].url = files[k].URL
                            /\ tasks[j].filename = files[k].Filename
                            /\ tasks[j].hash = HashesGet(files[k].Hashes, "sha512")
    /\ Joined =>
          \A j \in Jobs :
             (tasks[j].source = "modrinth" /\ job[j].err = Nil) =>
                \E k \in Jobs :
                   /\ LockKeyOf(k) = LockKeyOf(j)
                   /\ lockFile[LockKeyOf(j)].Version = tasks[k].version
                   /\ lockFile[LockKeyOf(j)].Hash = tasks[k].hash

\* The selected version lists its primary file second, and the task is for
\* that file.
C18_Witness ==
    /\ ModrinthVersionAtHand
    /\ Candidates[AskedPosition] = MV3
    /\ \E j \in TasksOf(call.index) :
          /\ tasks[j].url = MFMain.URL
          /\ tasks[j].filename = MFMain.Filename
          /\ tasks[j].hash = MFMain.Hashes.sha512

\* The text of an error has a part.
Carries(err, part) == \E k \in 1..Len(err) : err[k] = part

\* C19: every operation of both catalog clients that receives a status
\* other than success returns an error (never a result without one) whose
\* text carries the status code and the raw response body.
C19_StatusErrorCarriesCodeAndBody ==
    (call.fn \in ClientOperations /\ ~call.response.failed
        /\ call.response.StatusCode # StatusOK) =>
       /\ call.result.err # << >>
       /\ Carries(call.result.err, StatusText(call.response.StatusCode))
       /\ Carries(call.result.err, call.response.Body)

\* The job is inside downloadFile* with its temp file created.
Downloading(j) == job[j].pc \in {"stream", "publish", "copy"}

\* C20: two jobs that are downloading at the same time have different temp
\* files and different destination paths, whatever package.yml declares.
C20_NoSharedPath ==
    \A j, k \in Jobs :
       (j # k /\ Downloading(j) /\ Downloading(k)) =>
          /\ job[j].tmp # job[k].tmp
          /\ DestOf(j) # DestOf(k)

\* C21: the platform substituted for a Hangar plugin resolved through the
\* alternative-platform fallback is used for that plugin only: whenever the
\* metadata loop goes on to a further plugin, the server type that plugin is
\* resolved against is the one the loop started with.
C21_SubstitutionForOnePluginOnly ==
    [][(pcMain = "resolve" /\ idx' <= Len(pkg)) => serverType' = serverType]_vars

\* C22: the steps of one artifact are ordered.  A task is appended only by an
\* iteration of the metadata loop that obtained a version list, and its
\* version is one of that list; a job is started only when the metadata loop
\* is over, for a task that exists; the lock mapping is changed during the
\* download phase only by a job whose download has returned nil, which stores
\* its own entry; a job whose download returned an error leaves it alone.
C22_PipelineOrder ==
    [][/\ tasks' # tasks =>
             /\ pcMain = "resolve"
             /\ call'.fn = "GetProjectVersions" /\ ~call'.err
             /\ tasks' = Append(tasks, tasks'[Len(tasks')])
             /\ tasks'[Len(tasks')].index = call'.index
             /\ \E k \in 1..Len(Candidates') :
                   LabelOf(call'.source, Candidates'[k]) = tasks'[Len(tasks')].version
       /\ \A j \in DOMAIN job :
             (job[j].pc = "idle" /\ job'[j].pc # "idle") =>
                /\ pcMain = "dispatch" /\ idx > Len(pkg)
                /\ j \in DOMAIN tasks
       /\ (Alive /\ lockFile' # lockFile) =>
             \E j \in Jobs :
                /\ job[j].pc = "update"
                /\ job[j].err = Nil
                /\ lockFile' = MapSet(lockFile, LockKeyOf(j), LockEntryOf(j))]_vars

\* A job whose download succeeded has just stored its entry, and a job whose
\* download failed is done without an entry under its key.
C22_Witness ==
    \E j, k \in Jobs :
       /\ job[j].pc = "unlock" /\ job[j].err = Nil
       /\ LockKeyOf(j) \in DOMAIN lockFile /\ lockFile[LockKeyOf(j)] = LockEntryOf(j)
       /\ job[k].pc = "done" /\ job[k].err # Nil
       /\ LockKeyOf(k) \notin DOMAIN lockFile

\* C23: when every download call returns, then for any number of tasks
\* (none, or more than the semaphore holds) the run comes to its end: every
\* job has gone through the semaphore and is done, every permit is back, the
\* join has returned and the lock file has been saved once.
C23_EveryJobFinishesAndSaveIsReached ==
    <>(/\ pcMain = "done"
       /\ \A j \in Jobs : job[j].pc = "done"
       /\ sem = 0
       /\ wg = 0
       /\ saveCount = 1)

\* A run of more tasks than the semaphore holds, one of them failed, has
\* come to its end with every permit back.
C23_Witness ==
    /\ pcMain = "done"
    /\ Len(tasks) > SemaphoreCap
    /\ \A j \in Jobs : job[j].pc = "done"
    /\ \E j \in Jobs : job[j].err # Nil
    /\ sem = 0
    /\ saveCount = 1

\* C24: the "bytes written so far" value of a progress bar never decreases,
\* the finish step and downloads of unknown total included, and the total
\* of a bar changes at most once, from unknown (0) to a known value.
C24_BarNeverGoesBack ==
    [][\A b \in DOMAIN bars \cap DOMAIN bars' :
          /\ bars'[b].Current >= bars[b].Current
          /\ bars'[b].Total # bars[b].Total => (bars[b].Total = 0 /\ bars'[b].Total > 0)]_vars

FirstReadyLine(output) ==
    IF \E k \in 1..Len(output) : ReadyLine(output[k])
    THEN CHOOSE k \in 1..Len(output) :
            ReadyLine(output[k]) /\ \A m \in 1..(k - 1) : ~ReadyLine(output[m])
    ELSE 0

\* The server was started with startup commands.
Served == serve.pc # "none" /\ serve.pcMon # "idle"

C27_UnloadablePackageIsReported ==
    (call.fn = "runInstall" /\ Len(call.args) = 0 /\ ~call.loadable /\ pcMain # "run") =>
        /\ pcMain # "panic"
        /\ pcMain = "done" /\ retErr \in {"could not read package.yml",
                                             "could not create directory"}

\* A turn of the loop of installSpecificPlugins.
Attempted == pcMain = "query" /\ idx' = idx + 1

\* C28: in the install of named plugins, a plugin whose install fails at
\* any step leaves the declared plugin list and the lock mapping as they
\* were before it was attempted; they change only when the install returned
\* nil, which it does only after the download returned nil, and then by the
\* one entry of that plugin; either way the loop goes on to the next
\* requested plugin, and neither file is written before the loop ends.
C28_FailedInstallLeavesListAndLock ==
    [][Attempted =>
          /\ pcMain' = "query"
          /\ call'.last.query = call.args[idx]
          /\ call'.last.err # "nil" => (pkg' = pkg /\ lockFile' = lockFile)
          /\ (pkg' # pkg \/ lockFile' # lockFile) => call'.last.err = "nil"
          /\ call'.last.err = "nil" =>
                \E id \in {<<"m", "a">>, <<"o", "/", "s">>} :
                   /\ DOMAIN lockFile' = DOMAIN lockFile \cup {id}
                   /\ \A k \in DOMAIN lockFile \ {id} : lockFile'[k] = lockFile[k]
                   /\ \E k \in 1..Len(pkg') :
                         /\ id \in {pkg'[k].ModrinthID, pkg'[k].HangarID}
                         /\ pkg'[k].Version = lockFile'[id].Version
                         /\ \A m \in 1..Len(pkg) : m # k => pkg'[m] = pkg[m]
                   /\ Len(pkg') \in {Len(pkg), Len(pkg) + 1}
          /\ call'.packageYml = call.packageYml
          /\ diskLock' = diskLock]_vars

\* The first requested plugin failed at its download and left nothing; the
\* second was installed and is in the list and in the lock mapping.
C28_Witness ==
    /\ pcMain = "query"
    /\ idx = 3
    /\ call.last.err = "nil"
    /\ \E k \in 1..Len(out) : out[k].detail = "error downloading"
    /\ Len(pkg) = Len(call.packageYml) + 1
    /\ Cardinality(DOMAIN lockFile) = 1

\* The alternative-platform search returned several candidates for a
\* plugin that pins a label, and one of them carries the label.
PinnedAmongAlternatives ==
    /\ call.fn = "GetProjectVersions"
    /\ ~call.err
    /\ Len(call.versions) = 0
    /\ Len(call.alternatives) > 1
    /\ pkg[call.index].Version \notin {"", "latest"}
    /\ \E k \in 1..Len(call.alternatives) :
          LabelOf(call.source, call.alternatives[k].version) = pkg[call.index].Version

\* C29: in batch install, when the primary version list is empty and the
\* alternative-platform search returns several candidates, a plugin that
\* pins a label carried by one of them is not reported as version-not-found,
\* and the task made for it is for the version with that label.
C29_PinnedLabelFoundAmongAlternatives ==
    PinnedAmongAlternatives =>
        /\ ~Printed("version not found")
        /\ \A k \in 1..Len(tasks) :
              tasks[k].index = call.index => tasks[k].version = pkg[call.index].Version

\* The versions of a listing that declare PAPER support for a game version,
\* in catalog order.
DeclaringPaper(versions, gameVersion) ==
    LET declares(v) == /\ "PAPER" \in DOMAIN v.PlatformDependencies
                       /\ gameVersion \in v.PlatformDependencies["PAPER"]
    IN  SelectSeq(versions, declares)

\* C30: the Hangar listing install makes for a server type that maps to
\* PAPER (paper, purpur, folia, spigot, bukkit) and a target game version
\* returns, in catalog order, the versions that declare PAPER support for
\* that game version.
C30_ListingFiltersByMappedPlatform ==
    (/\ call.fn = "HangarGetProjectVersions"
     /\ ~call.response.err
     /\ call.gameVersion # ""
     /\ mapServerTypeToPlatform(call.serverType) = "PAPER") =>
        /\ ~call.result.err
        /\ call.result.versions = DeclaringPaper(call.response.versions, call.gameVersion)

====
